---------------------------- MODULE Spec2Model ----------------------------
(***************************************************************************)
(* kolosys/timecapsule: the in-memory capsule store (timecapsule.go) and   *)
(* the backend-delegating one (storage.go, codec.go).                      *)
(*                                                                         *)
(* Goroutines call Store, Open, Peek, Delay, Delete, Exists and            *)
(* WaitForUnlock on one MemoryTimeCapsule.  Every call is cut into the     *)
(* steps at which it touches shared state: its context (ctx.Err), the      *)
(* store's sync.RWMutex, the map, and the clock (time.Now).  The clock     *)
(* ticks and contexts are cancelled between any two steps.  A call on a    *)
(* PersistentTimeCapsule is cut at its calls of the Storage backend, each  *)
(* of which acts on the backend's records in one step.                     *)
(*                                                                         *)
(* A value is a pair: what it is in run A and in run B of two runs that    *)
(* make the same calls at the same instants.  No statement of the program  *)
(* reads a value, so the two runs take the same steps and are kept as one  *)
(* state; single-run specifications store pairs whose halves agree.        *)
(***************************************************************************)
EXTENDS Integers, FiniteSets, Sequences, TLC

\* ------------------------------------------------------------ bounds
MaxTime == 1        \* the clock runs over 0..MaxTime

\* ------------------------------------------------------------ inputs
Procs == {"g1", "g2"}
Keys == {"", "a"}
Times == 0..(MaxTime + 1)                    \* unlock times passed to Store
Delays == {-1, 0, 1}                         \* durations passed to Delay
Values == {<<1, 1>>, <<2, 2>>}               \* values of a single run
ValuePairs == {<<1, 2>>, <<2, 2>>}           \* values of two runs: <<run A, run B>>
OneValue == {<<1, 1>>}

\* ------------------------------------------------------------ errors
Nil == "nil"
ErrCapsuleNotFound == "capsule not found"
ErrCapsuleLocked == "capsule is still locked"
ErrInvalidKey == "invalid key"
Canceled == "context canceled"
DeadlineExceeded == "context deadline exceeded"
CtxErrs == {Canceled, DeadlineExceeded}

\* ------------------------------------------------------------ data
Zero == <<0, 0>>                             \* var zero T
Capsule(v, u, c) == [Value |-> v, UnlockTime |-> u, CreatedAt |-> c]
ZeroCapsule == Capsule(Zero, 0, 0)
Metadata(u, c, l) == [UnlockTime |-> u, CreatedAt |-> c, IsLocked |-> l]
ZeroMetadata == Metadata(0, 0, FALSE)
BeforeOrAt(t, u) == t <= u                   \* a bug: the unlock instant counts as locked
Before(t, u) == t < u                        \* time.Time.Before
Add(t, d) == t + d                           \* time.Time.Add
NoTimer == [state |-> "none", fireAt |-> 0]
NoRet == [value |-> Zero, metadata |-> ZeroMetadata, ok |-> FALSE, err |-> Nil]
RetErr(e) == [NoRet EXCEPT !.err = e]
RetValue(v) == [NoRet EXCEPT !.value = v]
RetMetadata(m) == [NoRet EXCEPT !.metadata = m]
RetBool(b) == [NoRet EXCEPT !.ok = b]
NoCall == [op |-> "none", key |-> "", value |-> Zero, unlockTime |-> 0, delay |-> 0]

VARIABLES
    capsules,   \* tc.capsules: a function from the keys present to their Capsule
    mu,         \* tc.mu: [writer: BOOLEAN, readers: Nat]
    now,        \* the clock read by time.Now()
    pc,         \* per goroutine: where its call stands
    call,       \* per goroutine: the call's operation and arguments
    ctx,        \* per goroutine: ctx.Err() of the call's context
    capsule,    \* per goroutine: the local `capsule` read from the map
    exists,     \* per goroutine: the local `exists`
    metadata,   \* per goroutine: WaitForUnlock's local `metadata`
    timer,      \* per goroutine: WaitForUnlock's timer
    ret,        \* per goroutine: what the call returned
    touched,    \* history: another goroutine changed the call's key during the call
    opens,      \* history: Open calls made by the current WaitForUnlock
    timers,     \* history: timers armed by the current WaitForUnlock
    lastStore,  \* history: per key, the <<value, unlockTime>> of the last Store
                \* if no Delay or Delete of the key followed it
    openable,   \* history: per goroutine inside Open, the values that were
                \* openable under its key at some instant since Open was entered
    storage,    \* tc.storage: the backend's records, their values as bytes
    data,       \* per goroutine: the local `data`, bytes encoded or read
    newUnlockTime   \* per goroutine: Delay's local `newUnlockTime`

vars == <<capsules, mu, now, pc, call, ctx, capsule, exists, metadata, timer,
          ret, touched, opens, timers, lastStore, openable, storage, data,
          newUnlockTime>>

EmptyMap == [k \in {} |-> ZeroCapsule]
Has(m, k) == k \in DOMAIN m
\* a bug: an existing entry is kept (insert-only)
PutIfAbsent(m, k, c) == [x \in DOMAIN m \cup {k} |-> IF x \in DOMAIN m THEN m[x] ELSE c]
\* a bug: the map is replaced by one holding the new entry alone
PutAlone(m, k, c) == [x \in {k} |-> c]
Put(m, k, c) == [x \in DOMAIN m \cup {k} |-> IF x = k THEN c ELSE m[x]]
\* a bug: deleting a key empties the map
RemoveAll(m, k) == EmptyMap

Remove(m, k) == [x \in DOMAIN m \ {k} |-> m[x]]
Lookup(m, k) == IF Has(m, k) THEN m[k] ELSE ZeroCapsule

Init ==
    /\ capsules = EmptyMap
    /\ mu = [writer |-> FALSE, readers |-> 0]
    /\ now = 0
    /\ pc = [p \in Procs |-> "idle"]
    /\ call = [p \in Procs |-> NoCall]
    /\ ctx = [p \in Procs |-> Nil]
    /\ capsule = [p \in Procs |-> ZeroCapsule]
    /\ exists = [p \in Procs |-> FALSE]
    /\ metadata = [p \in Procs |-> ZeroMetadata]
    /\ timer = [p \in Procs |-> NoTimer]
    /\ ret = [p \in Procs |-> NoRet]
    /\ touched = [p \in Procs |-> FALSE]
    /\ opens = [p \in Procs |-> 0]
    /\ timers = [p \in Procs |-> 0]
    /\ lastStore = EmptyMap
    /\ openable = [p \in Procs |-> {}]
    /\ storage = EmptyMap
    /\ data = [p \in Procs |-> <<>>]
    /\ newUnlockTime = [p \in Procs |-> 0]


\* ------------------------------------------------------------ sync.RWMutex
CanLockAmongReaders(m) == ~m.writer          \* a bug: a writer does not wait for readers
CanLockAmongWriters(m) == m.readers = 0      \* a bug: a writer does not wait for another writer
CanLock(m) == ~m.writer /\ m.readers = 0
CanRLockBesideWriter(m) == TRUE              \* a bug: a reader does not wait for the writer
CanRLock(m) == ~m.writer
Lock(m) == [m EXCEPT !.writer = TRUE]
Unlock(m) == [m EXCEPT !.writer = FALSE]
RLock(m) == [m EXCEPT !.readers = @ + 1]
RUnlock(m) == [m EXCEPT !.readers = @ - 1]

\* ------------------------------------------------------------ helpers
Running(p) == pc[p] \notin {"idle", "done"}
Goto(p, l) == pc' = [pc EXCEPT ![p] = l]
\* a bug: the timer is left armed
StopNever(t) == t
\* timer.Stop(), deferred by WaitForUnlock: an armed timer is disarmed
Stop(t) == IF t.state = "armed" THEN [state |-> "stopped", fireAt |-> 0] ELSE t
\* the call returns r to its caller
Return(p, r) ==
    /\ pc' = [pc EXCEPT ![p] = "done"]
    /\ ret' = [ret EXCEPT ![p] = r]
    /\ timer' = [timer EXCEPT ![p] = Stop(timer[p])]
\* history: p changed the record under k while q's call on k was running
Touch(p, k) ==
    touched' = [q \in Procs |->
                   touched[q] \/ (q # p /\ Running(q) /\ call[q].key = k)]

\* history: the values a record under k offers at clock value t
OpenableAt(m, t, k) ==
    IF Has(m, k) /\ ~Before(t, m[k].UnlockTime) THEN {m[k].Value} ELSE {}
OpenPcs == {"Open_entry", "Open_rlock", "Open_read", "Open_check"}
\* p is inside an Open that its caller invoked (not the one WaitForUnlock makes)
InOpen(c, l, p) == c[p].op = "Open" /\ l[p] \in OpenPcs
\* history: every step adds, for each goroutine inside a call of Open, what
\* the state it leads to offers under that goroutine's key
Observe ==
    openable' = [p \in Procs |->
                    IF InOpen(call', pc', p)
                    THEN (IF InOpen(call, pc, p) THEN openable[p] ELSE {})
                            \cup OpenableAt(capsules', now', call'[p].key)
                    ELSE {}]
\* no step of the in-memory store touches a backend
MemFrame == Observe /\ UNCHANGED <<storage, data, newUnlockTime>>

Ops == {"Store", "Open", "Peek", "Delay", "Delete", "Exists", "WaitForUnlock"}

\* a goroutine calls operation o on key k with a fresh, live context; the other
\* arguments (value, unlockTime, delay) are fixed when the call first reads them
Invoke(p, o, k) ==
    /\ pc[p] \in {"idle", "done"}
    /\ pc' = [pc EXCEPT ![p] = IF o = "WaitForUnlock" THEN "Wait_entry"
                                ELSE o \o "_entry"]
    /\ call' = [call EXCEPT ![p] = [NoCall EXCEPT !.op = o, !.key = k]]
    /\ ctx' = [ctx EXCEPT ![p] = Nil]
    /\ capsule' = [capsule EXCEPT ![p] = ZeroCapsule]
    /\ exists' = [exists EXCEPT ![p] = FALSE]
    /\ metadata' = [metadata EXCEPT ![p] = ZeroMetadata]
    /\ timer' = [timer EXCEPT ![p] = NoTimer]
    /\ ret' = [ret EXCEPT ![p] = NoRet]
    /\ touched' = [touched EXCEPT ![p] = FALSE]
    /\ opens' = [opens EXCEPT ![p] = 0]
    /\ timers' = [timers EXCEPT ![p] = 0]
    /\ UNCHANGED <<capsules, mu, now, lastStore>>
    /\ MemFrame

\* the context of a running call is cancelled, or its deadline expires
Cancel(p, e) ==
    /\ Running(p)
    /\ ctx[p] = Nil
    /\ ctx' = [ctx EXCEPT ![p] = e]
    /\ UNCHANGED <<capsules, mu, now, pc, call, capsule, exists, metadata, timer,
                   ret, touched, opens, timers, lastStore>>
    /\ MemFrame

Tick(max) ==
    /\ now < max
    /\ now' = now + 1
    /\ UNCHANGED <<capsules, mu, pc, call, ctx, capsule, exists, metadata, timer,
                   ret, touched, opens, timers, lastStore>>
    /\ MemFrame

\* ------------------------------------------------------------ Store
StoredCapsule(v, u, t) == Capsule(v, u, t)

\* a bug: Store does not reject the empty key
StoreEntryAnyKey(p) ==
    /\ pc[p] = "Store_entry"
    /\ IF ctx[p] # Nil THEN Return(p, RetErr(ctx[p]))
       ELSE Goto(p, "Store_lock") /\ UNCHANGED <<ret, timer>>
    /\ UNCHANGED <<capsules, mu, now, call, ctx, capsule, exists, metadata,
                   touched, opens, timers, lastStore>>
    /\ MemFrame

StoreEntry(p) ==
    /\ pc[p] = "Store_entry"
    /\ IF ctx[p] # Nil THEN Return(p, RetErr(ctx[p]))
       ELSE IF call[p].key = "" THEN Return(p, RetErr(ErrInvalidKey))
       ELSE Goto(p, "Store_lock") /\ UNCHANGED <<ret, timer>>
    /\ UNCHANGED <<capsules, mu, now, call, ctx, capsule, exists, metadata,
                   touched, opens, timers, lastStore>>
    /\ MemFrame

StoreLock(p) ==
    /\ pc[p] = "Store_lock"
    /\ CanLock(mu)
    /\ mu' = Lock(mu)
    /\ Goto(p, "Store_crit")
    /\ UNCHANGED <<capsules, now, call, ctx, capsule, exists, metadata, timer,
                   ret, touched, opens, timers, lastStore>>
    /\ MemFrame

\* a bug: the context is looked at after the write, not before it
StoreWriteCtxAfter(p, v, u) ==
    /\ pc[p] = "Store_crit"
    /\ call' = [call EXCEPT ![p].value = v, ![p].unlockTime = u]
    /\ capsules' = Put(capsules, call[p].key, StoredCapsule(v, u, now))
    /\ lastStore' = Put(lastStore, call[p].key, <<v, u>>)
    /\ Touch(p, call[p].key)
    /\ mu' = Unlock(mu)
    /\ Return(p, RetErr(ctx[p]))
    /\ UNCHANGED <<now, ctx, capsule, exists, metadata, opens, timers>>
    /\ MemFrame

StoreWrite(p, v, u) ==
    /\ pc[p] = "Store_crit"
    /\ call' = [call EXCEPT ![p].value = v, ![p].unlockTime = u]
    /\ capsules' = Put(capsules, call[p].key, StoredCapsule(v, u, now))
    /\ lastStore' = Put(lastStore, call[p].key, <<v, u>>)
    /\ Touch(p, call[p].key)
    /\ mu' = Unlock(mu)
    /\ Return(p, RetErr(Nil))
    /\ UNCHANGED <<now, ctx, capsule, exists, metadata, opens, timers>>
    /\ MemFrame

\* The same critical section at the granularity of memory: the assignment
\* tc.capsules[key] = capsule copies the record into the map a field at a
\* time.  First the literal is built and its Value lands in the map's slot
\* (a fresh slot holds zeroes) ...
StoreWriteValue(p, v, u) ==
    /\ pc[p] = "Store_crit"
    /\ call' = [call EXCEPT ![p].value = v, ![p].unlockTime = u]
    /\ capsule' = [capsule EXCEPT ![p] = StoredCapsule(v, u, now)]
    /\ capsules' = Put(capsules, call[p].key,
                       [Lookup(capsules, call[p].key) EXCEPT !.Value = v])
    /\ lastStore' = Remove(lastStore, call[p].key)
    /\ Touch(p, call[p].key)
    /\ Goto(p, "Store_copy")
    /\ UNCHANGED <<mu, now, ctx, exists, metadata, timer, ret, opens, timers>>
    /\ MemFrame

\* ... then UnlockTime and CreatedAt follow, and the deferred Unlock runs
StoreWriteRest(p) ==
    /\ pc[p] = "Store_copy"
    /\ capsules' = Put(capsules, call[p].key, capsule[p])
    /\ capsule' = [capsule EXCEPT ![p] = ZeroCapsule]
    /\ lastStore' = Put(lastStore, call[p].key,
                        <<capsule[p].Value, capsule[p].UnlockTime>>)
    /\ Touch(p, call[p].key)
    /\ mu' = Unlock(mu)
    /\ Return(p, RetErr(Nil))
    /\ UNCHANGED <<now, call, ctx, exists, metadata, opens, timers>>
    /\ MemFrame

\* ------------------------------------------------------------ Open
\* a bug: the lock state is not checked
OpenResultNoGate(c, e, t) ==
    IF ~e THEN RetErr(ErrCapsuleNotFound) ELSE RetValue(c.Value)

\* a bug: the value is handed out beside the CapsuleLocked error
OpenResultLeak(c, e, t) ==
    IF ~e THEN RetErr(ErrCapsuleNotFound)
    ELSE IF Before(t, c.UnlockTime) THEN [RetErr(ErrCapsuleLocked) EXCEPT !.value = c.Value]
    ELSE RetValue(c.Value)

\* a bug: a capsule can be opened at its unlock instant only
OpenResultAtInstant(c, e, t) ==
    IF ~e THEN RetErr(ErrCapsuleNotFound)
    ELSE IF t # c.UnlockTime THEN RetErr(ErrCapsuleLocked)
    ELSE RetValue(c.Value)

OpenResult(c, e, t) ==
    IF ~e THEN RetErr(ErrCapsuleNotFound)
    ELSE IF Before(t, c.UnlockTime) THEN RetErr(ErrCapsuleLocked)
    ELSE RetValue(c.Value)

\* a bug: Open does not look at its context
OpenEntryNoCtx(p) ==
    /\ pc[p] = "Open_entry"
    /\ IF call[p].key = "" THEN Return(p, RetErr(ErrInvalidKey))
       ELSE Goto(p, "Open_rlock") /\ UNCHANGED <<ret, timer>>
    /\ UNCHANGED <<capsules, mu, now, call, ctx, capsule, exists, metadata,
                   touched, opens, timers, lastStore>>
    /\ MemFrame

OpenEntry(p) ==
    /\ pc[p] = "Open_entry"
    /\ IF ctx[p] # Nil THEN Return(p, RetErr(ctx[p]))
       ELSE IF call[p].key = "" THEN Return(p, RetErr(ErrInvalidKey))
       ELSE Goto(p, "Open_rlock") /\ UNCHANGED <<ret, timer>>
    /\ UNCHANGED <<capsules, mu, now, call, ctx, capsule, exists, metadata,
                   touched, opens, timers, lastStore>>
    /\ MemFrame

OpenRLock(p) ==
    /\ pc[p] = "Open_rlock"
    /\ CanRLock(mu)
    /\ mu' = RLock(mu)
    /\ Goto(p, "Open_read")
    /\ UNCHANGED <<capsules, now, call, ctx, capsule, exists, metadata, timer,
                   ret, touched, opens, timers, lastStore>>
    /\ MemFrame

OpenRead(p) ==
    /\ pc[p] = "Open_read"
    /\ capsule' = [capsule EXCEPT ![p] = Lookup(capsules, call[p].key)]
    /\ exists' = [exists EXCEPT ![p] = Has(capsules, call[p].key)]
    /\ mu' = RUnlock(mu)
    /\ Goto(p, "Open_check")
    /\ UNCHANGED <<capsules, now, call, ctx, metadata, timer, ret, touched,
                   opens, timers, lastStore>>
    /\ MemFrame

\* a bug: WaitForUnlock waits again when the capsule is locked after the timer
OpenCheckRewait(p) ==
    /\ pc[p] = "Open_check"
    /\ IF /\ call[p].op = "WaitForUnlock"
          /\ OpenResult(capsule[p], exists[p], now).err = ErrCapsuleLocked
       THEN Goto(p, "Peek_entry") /\ UNCHANGED <<ret, timer>>
       ELSE Return(p, OpenResult(capsule[p], exists[p], now))
    /\ capsule' = [capsule EXCEPT ![p] = ZeroCapsule]
    /\ exists' = [exists EXCEPT ![p] = FALSE]
    /\ UNCHANGED <<capsules, mu, now, call, ctx, metadata, touched, opens,
                   timers, lastStore>>
    /\ MemFrame

\* a bug: a successful Open takes the capsule out of the map
OpenCheckConsume(p) ==
    /\ pc[p] = "Open_check"
    /\ Return(p, OpenResult(capsule[p], exists[p], now))
    /\ capsules' = IF OpenResult(capsule[p], exists[p], now).err = Nil
                   THEN Remove(capsules, call[p].key) ELSE capsules
    /\ capsule' = [capsule EXCEPT ![p] = ZeroCapsule]
    /\ exists' = [exists EXCEPT ![p] = FALSE]
    /\ UNCHANGED <<mu, now, call, ctx, metadata, touched, opens, timers, lastStore>>
    /\ MemFrame

OpenCheck(p) ==
    /\ pc[p] = "Open_check"
    /\ Return(p, OpenResult(capsule[p], exists[p], now))
    /\ capsule' = [capsule EXCEPT ![p] = ZeroCapsule]
    /\ exists' = [exists EXCEPT ![p] = FALSE]
    /\ UNCHANGED <<capsules, mu, now, call, ctx, metadata, touched, opens,
                   timers, lastStore>>
    /\ MemFrame


\* ------------------------------------------------------------ Peek
\* a bug: the lock flag is the one the record had when it was created
PeekResultStored(c, e, t) ==
    IF ~e THEN RetErr(ErrCapsuleNotFound)
    ELSE RetMetadata(Metadata(c.UnlockTime, c.CreatedAt, Before(c.CreatedAt, c.UnlockTime)))

PeekResult(c, e, t) ==
    IF ~e THEN RetErr(ErrCapsuleNotFound)
    ELSE RetMetadata(Metadata(c.UnlockTime, c.CreatedAt, Before(t, c.UnlockTime)))

\* a bug: WaitForUnlock arms its timer for an unlocked capsule too
PeekReturnAlwaysWait(p, r) ==
    IF call[p].op = "Peek" THEN Return(p, r) /\ UNCHANGED <<metadata, opens>>
    ELSE IF r.err # Nil THEN Return(p, RetErr(r.err)) /\ UNCHANGED <<metadata, opens>>
    ELSE /\ Goto(p, "Wait_arm")
         /\ metadata' = [metadata EXCEPT ![p] = r.metadata]
         /\ UNCHANGED <<opens, ret, timer>>

\* Peek returns r: to the caller of Peek, or into WaitForUnlock, which
\* returns its error, opens an unlocked capsule, or goes on to wait
PeekReturn(p, r) ==
    IF call[p].op = "Peek" THEN Return(p, r) /\ UNCHANGED <<metadata, opens>>
    ELSE IF r.err # Nil THEN Return(p, RetErr(r.err)) /\ UNCHANGED <<metadata, opens>>
    ELSE IF ~r.metadata.IsLocked
         THEN /\ Goto(p, "Open_entry")
              /\ opens' = [opens EXCEPT ![p] = @ + 1]
              /\ UNCHANGED <<metadata, ret, timer>>
    ELSE /\ Goto(p, "Wait_arm")
         /\ metadata' = [metadata EXCEPT ![p] = r.metadata]
         /\ UNCHANGED <<opens, ret, timer>>

\* a bug: Peek does not reject the empty key
PeekEntryAnyKey(p) ==
    /\ pc[p] = "Peek_entry"
    /\ IF ctx[p] # Nil THEN PeekReturn(p, RetErr(ctx[p]))
       ELSE Goto(p, "Peek_rlock") /\ UNCHANGED <<ret, timer, metadata, opens>>
    /\ UNCHANGED <<capsules, mu, now, call, ctx, capsule, exists, touched,
                   timers, lastStore>>
    /\ MemFrame

PeekEntry(p) ==
    /\ pc[p] = "Peek_entry"
    /\ IF ctx[p] # Nil THEN PeekReturn(p, RetErr(ctx[p]))
       ELSE IF call[p].key = "" THEN PeekReturn(p, RetErr(ErrInvalidKey))
       ELSE Goto(p, "Peek_rlock") /\ UNCHANGED <<ret, timer, metadata, opens>>
    /\ UNCHANGED <<capsules, mu, now, call, ctx, capsule, exists, touched,
                   timers, lastStore>>
    /\ MemFrame

PeekRLock(p) ==
    /\ pc[p] = "Peek_rlock"
    /\ CanRLock(mu)
    /\ mu' = RLock(mu)
    /\ Goto(p, "Peek_read")
    /\ UNCHANGED <<capsules, now, call, ctx, capsule, exists, metadata, timer,
                   ret, touched, opens, timers, lastStore>>
    /\ MemFrame

PeekRead(p) ==
    /\ pc[p] = "Peek_read"
    /\ capsule' = [capsule EXCEPT ![p] = Lookup(capsules, call[p].key)]
    /\ exists' = [exists EXCEPT ![p] = Has(capsules, call[p].key)]
    /\ mu' = RUnlock(mu)
    /\ Goto(p, "Peek_ret")
    /\ UNCHANGED <<capsules, now, call, ctx, metadata, timer, ret, touched,
                   opens, timers, lastStore>>
    /\ MemFrame

PeekRet(p) ==
    /\ pc[p] = "Peek_ret"
    /\ PeekReturn(p, PeekResult(capsule[p], exists[p], now))
    /\ capsule' = [capsule EXCEPT ![p] = ZeroCapsule]
    /\ exists' = [exists EXCEPT ![p] = FALSE]
    /\ UNCHANGED <<capsules, mu, now, call, ctx, touched, timers, lastStore>>
    /\ MemFrame

\* ------------------------------------------------------------ Delay
\* a bug: the delay is added to the previous unlock time
DelayedCapsuleCumulative(c, t, d) == [c EXCEPT !.UnlockTime = Add(c.UnlockTime, d)]

DelayedCapsule(c, t, d) == [c EXCEPT !.UnlockTime = Add(t, d)]

DelayEntry(p) ==
    /\ pc[p] = "Delay_entry"
    /\ IF ctx[p] # Nil THEN Return(p, RetErr(ctx[p]))
       ELSE IF call[p].key = "" THEN Return(p, RetErr(ErrInvalidKey))
       ELSE Goto(p, "Delay_lock") /\ UNCHANGED <<ret, timer>>
    /\ UNCHANGED <<capsules, mu, now, call, ctx, capsule, exists, metadata,
                   touched, opens, timers, lastStore>>
    /\ MemFrame

DelayLock(p) ==
    /\ pc[p] = "Delay_lock"
    /\ CanLock(mu)
    /\ mu' = Lock(mu)
    /\ Goto(p, "Delay_crit")
    /\ UNCHANGED <<capsules, now, call, ctx, capsule, exists, metadata, timer,
                   ret, touched, opens, timers, lastStore>>
    /\ MemFrame

\* a bug: Delay of an absent key creates a record
DelayWriteUpsert(p, d) ==
    /\ pc[p] = "Delay_crit"
    /\ call' = [call EXCEPT ![p].delay = d]
    /\ capsules' = Put(capsules, call[p].key,
                       DelayedCapsule(Lookup(capsules, call[p].key), now, d))
    /\ lastStore' = Remove(lastStore, call[p].key)
    /\ Touch(p, call[p].key)
    /\ Return(p, RetErr(Nil))
    /\ mu' = Unlock(mu)
    /\ UNCHANGED <<now, ctx, capsule, exists, metadata, opens, timers>>
    /\ MemFrame

\* a bug: only a capsule that is still locked is delayed, and only forwards
DelayWriteLockedForward(p, d) ==
    /\ pc[p] = "Delay_crit"
    /\ call' = [call EXCEPT ![p].delay = d]
    /\ IF ~Has(capsules, call[p].key)
       THEN /\ Return(p, RetErr(ErrCapsuleNotFound))
            /\ UNCHANGED <<capsules, lastStore, touched>>
       ELSE IF d <= 0 \/ ~Before(now, capsules[call[p].key].UnlockTime)
       THEN /\ Return(p, RetErr(Nil))
            /\ UNCHANGED <<capsules, lastStore, touched>>
       ELSE /\ capsules' = Put(capsules, call[p].key,
                               DelayedCapsule(capsules[call[p].key], now, d))
            /\ lastStore' = Remove(lastStore, call[p].key)
            /\ Touch(p, call[p].key)
            /\ Return(p, RetErr(Nil))
    /\ mu' = Unlock(mu)
    /\ UNCHANGED <<now, ctx, capsule, exists, metadata, opens, timers>>
    /\ MemFrame

DelayWrite(p, d) ==
    /\ pc[p] = "Delay_crit"
    /\ call' = [call EXCEPT ![p].delay = d]
    /\ IF ~Has(capsules, call[p].key)
       THEN /\ Return(p, RetErr(ErrCapsuleNotFound))
            /\ UNCHANGED <<capsules, lastStore, touched>>
       ELSE /\ capsules' = Put(capsules, call[p].key,
                               DelayedCapsule(capsules[call[p].key], now, d))
            /\ lastStore' = Remove(lastStore, call[p].key)
            /\ Touch(p, call[p].key)
            /\ Return(p, RetErr(Nil))
    /\ mu' = Unlock(mu)
    /\ UNCHANGED <<now, ctx, capsule, exists, metadata, opens, timers>>
    /\ MemFrame

\* ------------------------------------------------------------ Delete
\* a bug: Delete does not look at its context
DeleteEntryNoCtx(p) ==
    /\ pc[p] = "Delete_entry"
    /\ IF call[p].key = "" THEN Return(p, RetErr(ErrInvalidKey))
       ELSE Goto(p, "Delete_lock") /\ UNCHANGED <<ret, timer>>
    /\ UNCHANGED <<capsules, mu, now, call, ctx, capsule, exists, metadata,
                   touched, opens, timers, lastStore>>
    /\ MemFrame

DeleteEntry(p) ==
    /\ pc[p] = "Delete_entry"
    /\ IF ctx[p] # Nil THEN Return(p, RetErr(ctx[p]))
       ELSE IF call[p].key = "" THEN Return(p, RetErr(ErrInvalidKey))
       ELSE Goto(p, "Delete_lock") /\ UNCHANGED <<ret, timer>>
    /\ UNCHANGED <<capsules, mu, now, call, ctx, capsule, exists, metadata,
                   touched, opens, timers, lastStore>>
    /\ MemFrame

DeleteLock(p) ==
    /\ pc[p] = "Delete_lock"
    /\ CanLock(mu)
    /\ mu' = Lock(mu)
    /\ Goto(p, "Delete_crit")
    /\ UNCHANGED <<capsules, now, call, ctx, capsule, exists, metadata, timer,
                   ret, touched, opens, timers, lastStore>>
    /\ MemFrame

\* a bug: a locked capsule is not deleted
DeleteWriteIfUnlocked(p) ==
    /\ pc[p] = "Delete_crit"
    /\ UNCHANGED call
    /\ IF ~Has(capsules, call[p].key)
       THEN /\ Return(p, RetErr(ErrCapsuleNotFound))
            /\ UNCHANGED <<capsules, lastStore, touched>>
       ELSE IF Before(now, capsules[call[p].key].UnlockTime)
       THEN /\ Return(p, RetErr(ErrCapsuleLocked))
            /\ UNCHANGED <<capsules, lastStore, touched>>
       ELSE /\ capsules' = Remove(capsules, call[p].key)
            /\ lastStore' = Remove(lastStore, call[p].key)
            /\ Touch(p, call[p].key)
            /\ Return(p, RetErr(Nil))
    /\ mu' = Unlock(mu)
    /\ UNCHANGED <<now, ctx, capsule, exists, metadata, opens, timers>>
    /\ MemFrame

\* a bug: Delete returns CapsuleNotFound with the lock still held
DeleteWriteKeepsLock(p) ==
    /\ pc[p] = "Delete_crit"
    /\ UNCHANGED call
    /\ IF ~Has(capsules, call[p].key)
       THEN /\ Return(p, RetErr(ErrCapsuleNotFound))
            /\ UNCHANGED <<capsules, lastStore, touched, mu>>
       ELSE /\ capsules' = Remove(capsules, call[p].key)
            /\ lastStore' = Remove(lastStore, call[p].key)
            /\ Touch(p, call[p].key)
            /\ Return(p, RetErr(Nil))
            /\ mu' = Unlock(mu)
    /\ UNCHANGED <<now, ctx, capsule, exists, metadata, opens, timers>>
    /\ MemFrame

DeleteWrite(p) ==
    /\ pc[p] = "Delete_crit"
    /\ UNCHANGED call
    /\ IF ~Has(capsules, call[p].key)
       THEN /\ Return(p, RetErr(ErrCapsuleNotFound))
            /\ UNCHANGED <<capsules, lastStore, touched>>
       ELSE /\ capsules' = Remove(capsules, call[p].key)
            /\ lastStore' = Remove(lastStore, call[p].key)
            /\ Touch(p, call[p].key)
            /\ Return(p, RetErr(Nil))
    /\ mu' = Unlock(mu)
    /\ UNCHANGED <<now, ctx, capsule, exists, metadata, opens, timers>>
    /\ MemFrame

\* ------------------------------------------------------------ Exists
ExistsEntry(p) ==
    /\ pc[p] = "Exists_entry"
    /\ IF ctx[p] # Nil THEN Return(p, RetBool(FALSE))
       ELSE IF call[p].key = "" THEN Return(p, RetBool(FALSE))
       ELSE Goto(p, "Exists_rlock") /\ UNCHANGED <<ret, timer>>
    /\ UNCHANGED <<capsules, mu, now, call, ctx, capsule, exists, metadata,
                   touched, opens, timers, lastStore>>
    /\ MemFrame

ExistsRLock(p) ==
    /\ pc[p] = "Exists_rlock"
    /\ CanRLock(mu)
    /\ mu' = RLock(mu)
    /\ Goto(p, "Exists_read")
    /\ UNCHANGED <<capsules, now, call, ctx, capsule, exists, metadata, timer,
                   ret, touched, opens, timers, lastStore>>
    /\ MemFrame

\* a bug: a locked capsule is reported absent
ExistsReadUnlocked(p) ==
    /\ pc[p] = "Exists_read"
    /\ mu' = RUnlock(mu)
    /\ Return(p, RetBool(/\ Has(capsules, call[p].key)
                         /\ ~Before(now, capsules[call[p].key].UnlockTime)))
    /\ UNCHANGED <<capsules, now, call, ctx, capsule, exists, metadata, touched,
                   opens, timers, lastStore>>
    /\ MemFrame

ExistsRead(p) ==
    /\ pc[p] = "Exists_read"
    /\ mu' = RUnlock(mu)
    /\ Return(p, RetBool(Has(capsules, call[p].key)))
    /\ UNCHANGED <<capsules, now, call, ctx, capsule, exists, metadata, touched,
                   opens, timers, lastStore>>
    /\ MemFrame


\* ------------------------------------------------------------ WaitForUnlock
Until(u) == u - now                          \* time.Until
\* a bug: the timer is armed with no duration
NewTimerNow(t, d) == [state |-> "armed", fireAt |-> t]

\* a bug: a timer with no time left is never started
NewTimerIfLeft(t, d) == IF d > 0 THEN [state |-> "armed", fireAt |-> t + d] ELSE NoTimer

\* time.NewTimer(d) started at t: its channel is ready from t + d on, at once if d <= 0
NewTimer(t, d) == [state |-> "armed", fireAt |-> IF d > 0 THEN t + d ELSE t]
Fired(t) == t.state = "armed" /\ now >= t.fireAt

WaitEntry(p) ==
    /\ pc[p] = "Wait_entry"
    /\ IF ctx[p] # Nil THEN Return(p, RetErr(ctx[p]))
       ELSE Goto(p, "Peek_entry") /\ UNCHANGED <<ret, timer>>
    /\ UNCHANGED <<capsules, mu, now, call, ctx, capsule, exists, metadata,
                   touched, opens, timers, lastStore>>
    /\ MemFrame

WaitArm(p) ==
    /\ pc[p] = "Wait_arm"
    /\ timer' = [timer EXCEPT ![p] = NewTimer(now, Until(metadata[p].UnlockTime))]
    /\ timers' = [timers EXCEPT ![p] = @ + 1]
    /\ metadata' = [metadata EXCEPT ![p] = ZeroMetadata]   \* not read again
    /\ Goto(p, "Wait_select")
    /\ UNCHANGED <<capsules, mu, now, call, ctx, capsule, exists, ret, touched,
                   opens, lastStore>>
    /\ MemFrame

\* a bug: the wait does not listen to the context
SelectDoneNever(p) == FALSE /\ UNCHANGED vars

\* select: case <-ctx.Done()
SelectDone(p) ==
    /\ pc[p] = "Wait_select"
    /\ ctx[p] # Nil
    /\ Return(p, RetErr(ctx[p]))
    /\ UNCHANGED <<capsules, mu, now, call, ctx, capsule, exists, metadata,
                   touched, opens, timers, lastStore>>
    /\ MemFrame

\* a bug: the wait also ends as soon as the capsule in the map is openable
SelectTimerOnOpenable(p) ==
    /\ pc[p] = "Wait_select"
    /\ \/ Fired(timer[p])
       \/ /\ Has(capsules, call[p].key)
          /\ ~Before(now, capsules[call[p].key].UnlockTime)
    /\ timer' = [timer EXCEPT ![p] = [state |-> "fired", fireAt |-> 0]]
    /\ opens' = [opens EXCEPT ![p] = @ + 1]
    /\ Goto(p, "Open_entry")
    /\ UNCHANGED <<capsules, mu, now, call, ctx, capsule, exists, metadata, ret,
                   touched, timers, lastStore>>
    /\ MemFrame

\* a bug: after the timer the map is read without a look at the context
SelectTimerNoRecheck(p) ==
    /\ pc[p] = "Wait_select"
    /\ Fired(timer[p])
    /\ timer' = [timer EXCEPT ![p] = [state |-> "fired", fireAt |-> 0]]
    /\ opens' = [opens EXCEPT ![p] = @ + 1]
    /\ Goto(p, "Open_rlock")
    /\ UNCHANGED <<capsules, mu, now, call, ctx, capsule, exists, metadata, ret,
                   touched, timers, lastStore>>
    /\ MemFrame

\* select: case <-timer.C
SelectTimer(p) ==
    /\ pc[p] = "Wait_select"
    /\ Fired(timer[p])
    /\ timer' = [timer EXCEPT ![p] = [state |-> "fired", fireAt |-> 0]]
    /\ opens' = [opens EXCEPT ![p] = @ + 1]
    /\ Goto(p, "Open_entry")
    /\ UNCHANGED <<capsules, mu, now, call, ctx, capsule, exists, metadata, ret,
                   touched, timers, lastStore>>
    /\ MemFrame

\* ------------------------------------------------------------ PersistentTimeCapsule
\* JSONCodec on the values stored here, integers of one digit: json.Marshal
\* writes the digit's character, one byte, and json.Unmarshal reads it back;
\* a value is encoded in each of the two runs
Marshal(n) == 48 + n
Unmarshal(b) == b - 48
Encode(v) == <<Marshal(v[1]), Marshal(v[2])>>
Decode(d) == <<Unmarshal(d[1]), Unmarshal(d[2])>>
NoData == <<>>                               \* var data []byte
\* json.Marshal fails on a value it has no encoding for (a channel, a NaN)
Unsupported == <<-1, -1>>
ErrUnsupported == "json: unsupported value"
EncodeErr(v) == IF v = Unsupported THEN ErrUnsupported ELSE Nil

\* The Storage contract, met by a backend that keeps a map as the in-memory
\* store does, its values being bytes: every call looks at its context, then
\* acts on the map in one step.  A call yields [m: the map, err, data, metadata, ok]
NoReply(m) == [m |-> m, err |-> Nil, data |-> NoData, metadata |-> ZeroMetadata,
               ok |-> FALSE]
StorageStore(c, m, k, d, u, t) ==
    IF c # Nil THEN [NoReply(m) EXCEPT !.err = c]
    ELSE NoReply(Put(m, k, Capsule(d, u, t)))
StorageOpen(c, m, k, t) ==
    IF c # Nil THEN [NoReply(m) EXCEPT !.err = c]
    ELSE IF ~Has(m, k) THEN [NoReply(m) EXCEPT !.err = ErrCapsuleNotFound]
    ELSE IF Before(t, m[k].UnlockTime) THEN [NoReply(m) EXCEPT !.err = ErrCapsuleLocked]
    ELSE [NoReply(m) EXCEPT !.data = m[k].Value]
StoragePeek(c, m, k, t) ==
    IF c # Nil THEN [NoReply(m) EXCEPT !.err = c]
    ELSE IF ~Has(m, k) THEN [NoReply(m) EXCEPT !.err = ErrCapsuleNotFound]
    ELSE [NoReply(m) EXCEPT !.metadata =
             Metadata(m[k].UnlockTime, m[k].CreatedAt, Before(t, m[k].UnlockTime))]
StorageDelete(c, m, k) ==
    IF c # Nil THEN [NoReply(m) EXCEPT !.err = c]
    ELSE IF ~Has(m, k) THEN [NoReply(m) EXCEPT !.err = ErrCapsuleNotFound]
    ELSE NoReply(Remove(m, k))
StorageExists(c, m, k) ==
    IF c # Nil THEN NoReply(m) ELSE [NoReply(m) EXCEPT !.ok = Has(m, k)]

\* no step of the backend-delegating store touches the in-memory one
BackFrame == UNCHANGED <<capsules, mu, capsule, exists, touched, lastStore, openable>>

\* a goroutine calls operation o of the PersistentTimeCapsule on key k
PInvoke(p, o, k) ==
    /\ pc[p] \in {"idle", "done"}
    /\ pc' = [pc EXCEPT ![p] = IF o = "WaitForUnlock" THEN "PWait_entry"
                                ELSE "P" \o o \o "_entry"]
    /\ call' = [call EXCEPT ![p] = [NoCall EXCEPT !.op = o, !.key = k]]
    /\ ctx' = [ctx EXCEPT ![p] = Nil]
    /\ metadata' = [metadata EXCEPT ![p] = ZeroMetadata]
    /\ timer' = [timer EXCEPT ![p] = NoTimer]
    /\ ret' = [ret EXCEPT ![p] = NoRet]
    /\ opens' = [opens EXCEPT ![p] = 0]
    /\ timers' = [timers EXCEPT ![p] = 0]
    /\ data' = [data EXCEPT ![p] = NoData]
    /\ newUnlockTime' = [newUnlockTime EXCEPT ![p] = 0]
    /\ UNCHANGED <<now, storage>>
    /\ BackFrame

\* ---- Store: ctx.Err, key, codec.Encode ...
PStoreEntry(p, v, u) ==
    /\ pc[p] = "PStore_entry"
    /\ IF ctx[p] # Nil THEN Return(p, RetErr(ctx[p])) /\ UNCHANGED <<call, data>>
       ELSE IF call[p].key = ""
            THEN Return(p, RetErr(ErrInvalidKey)) /\ UNCHANGED <<call, data>>
       ELSE IF EncodeErr(v) # Nil
            THEN /\ call' = [call EXCEPT ![p].value = v, ![p].unlockTime = u]
                 /\ Return(p, RetErr(EncodeErr(v)))
                 /\ UNCHANGED data
       ELSE /\ call' = [call EXCEPT ![p].value = v, ![p].unlockTime = u]
            /\ data' = [data EXCEPT ![p] = Encode(v)]
            /\ Goto(p, "PStore_call")
            /\ UNCHANGED <<ret, timer>>
    /\ UNCHANGED <<now, ctx, metadata, opens, timers, storage, newUnlockTime>>
    /\ BackFrame

\* ... and tc.storage.Store
PStoreCall(p) ==
    /\ pc[p] = "PStore_call"
    /\ LET r == StorageStore(ctx[p], storage, call[p].key, data[p],
                             call[p].unlockTime, now)
       IN  storage' = r.m /\ Return(p, RetErr(r.err))
    /\ data' = [data EXCEPT ![p] = NoData]
    /\ UNCHANGED <<now, call, ctx, metadata, opens, timers, newUnlockTime>>
    /\ BackFrame

\* ---- Open: ctx.Err, key ...
POpenEntry(p) ==
    /\ pc[p] = "POpen_entry"
    /\ IF ctx[p] # Nil THEN Return(p, RetErr(ctx[p]))
       ELSE IF call[p].key = "" THEN Return(p, RetErr(ErrInvalidKey))
       ELSE Goto(p, "POpen_call") /\ UNCHANGED <<ret, timer>>
    /\ UNCHANGED <<now, call, ctx, metadata, opens, timers, storage, data,
                   newUnlockTime>>
    /\ BackFrame

\* a bug: the bytes are handed out as they came, not decoded
POpenResultRaw(r) == IF r.err # Nil THEN RetErr(r.err) ELSE RetValue(r.data)

\* what Open returns for the backend's reply r
POpenResult(r) == IF r.err # Nil THEN RetErr(r.err) ELSE RetValue(Decode(r.data))

\* ... tc.storage.Open and codec.Decode
POpenCall(p) ==
    /\ pc[p] = "POpen_call"
    /\ Return(p, POpenResult(StorageOpen(ctx[p], storage, call[p].key, now)))
    /\ UNCHANGED <<now, call, ctx, metadata, opens, timers, storage, data,
                   newUnlockTime>>
    /\ BackFrame

\* ---- Peek.  It returns r to the caller of Peek, or into WaitForUnlock
PPeekReturn(p, r) ==
    IF call[p].op = "Peek" THEN Return(p, r) /\ UNCHANGED <<metadata, opens>>
    ELSE IF r.err # Nil THEN Return(p, RetErr(r.err)) /\ UNCHANGED <<metadata, opens>>
    ELSE IF ~r.metadata.IsLocked
         THEN /\ Goto(p, "POpen_entry")
              /\ opens' = [opens EXCEPT ![p] = @ + 1]
              /\ UNCHANGED <<metadata, ret, timer>>
    ELSE /\ Goto(p, "PWait_arm")
         /\ metadata' = [metadata EXCEPT ![p] = r.metadata]
         /\ UNCHANGED <<opens, ret, timer>>

PPeekEntry(p) ==
    /\ pc[p] = "PPeek_entry"
    /\ IF ctx[p] # Nil THEN PPeekReturn(p, RetErr(ctx[p]))
       ELSE IF call[p].key = "" THEN PPeekReturn(p, RetErr(ErrInvalidKey))
       ELSE Goto(p, "PPeek_call") /\ UNCHANGED <<ret, timer, metadata, opens>>
    /\ UNCHANGED <<now, call, ctx, timers, storage, data, newUnlockTime>>
    /\ BackFrame

PPeekResult(r) == IF r.err # Nil THEN RetErr(r.err) ELSE RetMetadata(r.metadata)

PPeekCall(p) ==
    /\ pc[p] = "PPeek_call"
    /\ PPeekReturn(p, PPeekResult(StoragePeek(ctx[p], storage, call[p].key, now)))
    /\ UNCHANGED <<now, call, ctx, timers, storage, data, newUnlockTime>>
    /\ BackFrame

\* ---- Delay: ctx.Err, key ...
PDelayEntry(p) ==
    /\ pc[p] = "PDelay_entry"
    /\ IF ctx[p] # Nil THEN Return(p, RetErr(ctx[p]))
       ELSE IF call[p].key = "" THEN Return(p, RetErr(ErrInvalidKey))
       ELSE Goto(p, "PDelay_peek") /\ UNCHANGED <<ret, timer>>
    /\ UNCHANGED <<now, call, ctx, metadata, opens, timers, storage, data,
                   newUnlockTime>>
    /\ BackFrame

\* ... "Check if capsule exists": tc.storage.Peek ...
PDelayPeek(p) ==
    /\ pc[p] = "PDelay_peek"
    /\ LET r == StoragePeek(ctx[p], storage, call[p].key, now)
       IN  IF r.err # Nil THEN Return(p, RetErr(r.err))
           ELSE Goto(p, "PDelay_now") /\ UNCHANGED <<ret, timer>>
    /\ UNCHANGED <<now, call, ctx, metadata, opens, timers, storage, data,
                   newUnlockTime>>
    /\ BackFrame

\* ... newUnlockTime := time.Now().Add(delay) ...
PDelayNow(p, d) ==
    /\ pc[p] = "PDelay_now"
    /\ call' = [call EXCEPT ![p].delay = d]
    /\ newUnlockTime' = [newUnlockTime EXCEPT ![p] = Add(now, d)]
    /\ Goto(p, "PDelay_open")
    /\ UNCHANGED <<now, ctx, metadata, timer, ret, opens, timers, storage, data>>
    /\ BackFrame

\* ... "Get the current value": tc.storage.Open ...
PDelayOpen(p) ==
    /\ pc[p] = "PDelay_open"
    /\ LET r == StorageOpen(ctx[p], storage, call[p].key, now)
       IN  IF r.err # Nil
           THEN /\ Return(p, RetErr(r.err))
                /\ newUnlockTime' = [newUnlockTime EXCEPT ![p] = 0]
                /\ UNCHANGED data
           ELSE /\ data' = [data EXCEPT ![p] = r.data]
                /\ Goto(p, "PDelay_store")
                /\ UNCHANGED <<ret, timer, newUnlockTime>>
    /\ UNCHANGED <<now, call, ctx, metadata, opens, timers, storage>>
    /\ BackFrame

\* ... "Re-store with new unlock time": tc.storage.Store
PDelayStore(p) ==
    /\ pc[p] = "PDelay_store"
    /\ LET r == StorageStore(ctx[p], storage, call[p].key, data[p],
                             newUnlockTime[p], now)
       IN  storage' = r.m /\ Return(p, RetErr(r.err))
    /\ data' = [data EXCEPT ![p] = NoData]
    /\ newUnlockTime' = [newUnlockTime EXCEPT ![p] = 0]
    /\ UNCHANGED <<now, call, ctx, metadata, opens, timers>>
    /\ BackFrame

\* ---- Delete
\* a bug: Delete hands the empty key to the backend
PDeleteEntryAnyKey(p) ==
    /\ pc[p] = "PDelete_entry"
    /\ IF ctx[p] # Nil THEN Return(p, RetErr(ctx[p]))
       ELSE Goto(p, "PDelete_call") /\ UNCHANGED <<ret, timer>>
    /\ UNCHANGED <<now, call, ctx, metadata, opens, timers, storage, data,
                   newUnlockTime>>
    /\ BackFrame

PDeleteEntry(p) ==
    /\ pc[p] = "PDelete_entry"
    /\ IF ctx[p] # Nil THEN Return(p, RetErr(ctx[p]))
       ELSE IF call[p].key = "" THEN Return(p, RetErr(ErrInvalidKey))
       ELSE Goto(p, "PDelete_call") /\ UNCHANGED <<ret, timer>>
    /\ UNCHANGED <<now, call, ctx, metadata, opens, timers, storage, data,
                   newUnlockTime>>
    /\ BackFrame

PDeleteCall(p) ==
    /\ pc[p] = "PDelete_call"
    /\ LET r == StorageDelete(ctx[p], storage, call[p].key)
       IN  storage' = r.m /\ Return(p, RetErr(r.err))
    /\ UNCHANGED <<now, call, ctx, metadata, opens, timers, data, newUnlockTime>>
    /\ BackFrame

\* ---- Exists
PExistsEntry(p) ==
    /\ pc[p] = "PExists_entry"
    /\ IF ctx[p] # Nil THEN Return(p, RetBool(FALSE))
       ELSE IF call[p].key = "" THEN Return(p, RetBool(FALSE))
       ELSE Goto(p, "PExists_call") /\ UNCHANGED <<ret, timer>>
    /\ UNCHANGED <<now, call, ctx, metadata, opens, timers, storage, data,
                   newUnlockTime>>
    /\ BackFrame

PExistsCall(p) ==
    /\ pc[p] = "PExists_call"
    /\ Return(p, RetBool(StorageExists(ctx[p], storage, call[p].key).ok))
    /\ UNCHANGED <<now, call, ctx, metadata, opens, timers, storage, data,
                   newUnlockTime>>
    /\ BackFrame

\* ---- WaitForUnlock: ctx.Err, tc.Peek, then tc.Open at once or after the timer
PWaitEntry(p) ==
    /\ pc[p] = "PWait_entry"
    /\ IF ctx[p] # Nil THEN Return(p, RetErr(ctx[p]))
       ELSE Goto(p, "PPeek_entry") /\ UNCHANGED <<ret, timer>>
    /\ UNCHANGED <<now, call, ctx, metadata, opens, timers, storage, data,
                   newUnlockTime>>
    /\ BackFrame

PWaitArm(p) ==
    /\ pc[p] = "PWait_arm"
    /\ timer' = [timer EXCEPT ![p] = NewTimer(now, Until(metadata[p].UnlockTime))]
    /\ timers' = [timers EXCEPT ![p] = @ + 1]
    /\ metadata' = [metadata EXCEPT ![p] = ZeroMetadata]
    /\ Goto(p, "PWait_select")
    /\ UNCHANGED <<now, call, ctx, ret, opens, storage, data, newUnlockTime>>
    /\ BackFrame

PSelectDone(p) ==
    /\ pc[p] = "PWait_select"
    /\ ctx[p] # Nil
    /\ Return(p, RetErr(ctx[p]))
    /\ UNCHANGED <<now, call, ctx, metadata, opens, timers, storage, data,
                   newUnlockTime>>
    /\ BackFrame

PSelectTimer(p) ==
    /\ pc[p] = "PWait_select"
    /\ Fired(timer[p])
    /\ timer' = [timer EXCEPT ![p] = [state |-> "fired", fireAt |-> 0]]
    /\ opens' = [opens EXCEPT ![p] = @ + 1]
    /\ Goto(p, "POpen_entry")
    /\ UNCHANGED <<now, call, ctx, metadata, ret, timers, storage, data,
                   newUnlockTime>>
    /\ BackFrame

PStoreSteps(p, V, U) == (\E v \in V, u \in U : PStoreEntry(p, v, u)) \/ PStoreCall(p)
POpenSteps(p) == POpenEntry(p) \/ POpenCall(p)
PPeekSteps(p) == PPeekEntry(p) \/ PPeekCall(p)
PDelaySteps(p, D) ==
    \/ PDelayEntry(p) \/ PDelayPeek(p) \/ (\E d \in D : PDelayNow(p, d))
    \/ PDelayOpen(p) \/ PDelayStore(p)
PDeleteSteps(p) == PDeleteEntry(p) \/ PDeleteCall(p)
PExistsSteps(p) == PExistsEntry(p) \/ PExistsCall(p)
PWaitSteps(p) == PWaitEntry(p) \/ PWaitArm(p) \/ PSelectDone(p) \/ PSelectTimer(p)

\* ------------------------------------------------------------ specifications
\* the steps of each operation; Store and Delay read their arguments from V, U, D
StoreSteps(p, V, U) ==
    StoreEntry(p) \/ StoreLock(p) \/ \E v \in V, u \in U : StoreWrite(p, v, u)
OpenSteps(p) == OpenEntry(p) \/ OpenRLock(p) \/ OpenRead(p) \/ OpenCheck(p)
PeekSteps(p) == PeekEntry(p) \/ PeekRLock(p) \/ PeekRead(p) \/ PeekRet(p)
DelaySteps(p, D) == DelayEntry(p) \/ DelayLock(p) \/ \E d \in D : DelayWrite(p, d)
DeleteSteps(p) == DeleteEntry(p) \/ DeleteLock(p) \/ DeleteWrite(p)
ExistsSteps(p) == ExistsEntry(p) \/ ExistsRLock(p) \/ ExistsRead(p)
WaitSteps(p) == WaitEntry(p) \/ WaitArm(p) \/ SelectDone(p) \/ SelectTimer(p)
Step(p, V, U, D) ==
    \/ StoreSteps(p, V, U) \/ OpenSteps(p) \/ PeekSteps(p) \/ DelaySteps(p, D)
    \/ DeleteSteps(p) \/ ExistsSteps(p) \/ WaitSteps(p)

\* goroutine g1 reads and waits while goroutine g2 writes, on one key
Next ==
    \/ \E o \in {"Open", "Peek", "Exists", "WaitForUnlock"}, k \in Keys :
          Invoke("g1", o, k)
    \/ OpenSteps("g1") \/ PeekSteps("g1") \/ ExistsSteps("g1") \/ WaitSteps("g1")
    \/ \E o \in {"Store", "Delay", "Delete"}, k \in Keys : Invoke("g2", o, k)
    \/ StoreSteps("g2", Values, Times) \/ DelaySteps("g2", Delays) \/ DeleteSteps("g2")
    \/ Cancel("g1", Canceled)
    \/ Tick(MaxTime)
Spec == Init /\ [][Next]_vars

\* the same, the two runs storing different values
NextNI ==
    \/ \E o \in {"Open", "Peek", "Exists", "WaitForUnlock"}, k \in Keys :
          Invoke("g1", o, k)
    \/ OpenSteps("g1") \/ PeekSteps("g1") \/ ExistsSteps("g1") \/ WaitSteps("g1")
    \/ \E o \in {"Store", "Delay", "Delete"}, k \in Keys : Invoke("g2", o, k)
    \/ StoreSteps("g2", ValuePairs, Times) \/ DelaySteps("g2", Delays) \/ DeleteSteps("g2")
    \/ Cancel("g1", Canceled)
    \/ Tick(MaxTime)
SpecNI == Init /\ [][NextNI]_vars

\* one goroutine making every call
NextSeq ==
    \/ \E o \in Ops, k \in Keys : Invoke("g1", o, k)
    \/ Step("g1", Values, Times, Delays)
    \/ \E e \in CtxErrs : Cancel("g1", e)
    \/ Tick(MaxTime)
SpecSeq == Init /\ [][NextSeq]_vars

\* two goroutines, each reading and writing, the data kept small
NextLock ==
    \/ \E p \in Procs, o \in Ops \ {"WaitForUnlock"} : Invoke(p, o, "a")
    \/ \E p \in Procs :
          \/ StoreSteps(p, OneValue, {1}) \/ OpenSteps(p) \/ PeekSteps(p)
          \/ DelaySteps(p, {1}) \/ DeleteSteps(p) \/ ExistsSteps(p)
    \/ Tick(MaxTime)
SpecLock == Init /\ [][NextLock]_vars

\* goroutine g1 reads while goroutine g2 writes, Store copying field by field
NextTorn ==
    \/ \E o \in {"Open", "Peek"} : Invoke("g1", o, "a")
    \/ OpenSteps("g1") \/ PeekSteps("g1")
    \/ \E o \in {"Store", "Delay", "Delete"} : Invoke("g2", o, "a")
    \/ StoreEntry("g2") \/ StoreLock("g2")
    \/ \E v \in Values, u \in Times : StoreWriteValue("g2", v, u)
    \/ StoreWriteRest("g2")
    \/ DelaySteps("g2", Delays) \/ DeleteSteps("g2")
    \/ Tick(MaxTime)
SpecTorn == Init /\ [][NextTorn]_vars

\* two goroutines writing the same key
NextWriters ==
    \/ \E p \in Procs, o \in {"Store", "Delay", "Delete"} : Invoke(p, o, "a")
    \/ \E p \in Procs :
          StoreSteps(p, Values, Times) \/ DelaySteps(p, Delays) \/ DeleteSteps(p)
    \/ Tick(MaxTime)
SpecWriters == Init /\ [][NextWriters]_vars

\* each goroutine stores under a key of its own, and looks for both keys
OwnKey(p) == IF p = "g1" THEN "a" ELSE "b"
NextStores ==
    \/ \E p \in Procs : Invoke(p, "Store", OwnKey(p))
    \/ \E p, q \in Procs : Invoke(p, "Exists", OwnKey(q))
    \/ \E p \in Procs : StoreSteps(p, Values, Times) \/ ExistsSteps(p)
    \/ Tick(MaxTime)
SpecStores == Init /\ [][NextStores]_vars

\* each goroutine stores, delays and deletes under a key of its own
NextKeys ==
    \/ \E p \in Procs, o \in {"Store", "Delay", "Delete"} : Invoke(p, o, OwnKey(p))
    \/ \E p \in Procs :
          StoreSteps(p, OneValue, Times) \/ DelaySteps(p, Delays) \/ DeleteSteps(p)
    \/ Tick(MaxTime)
SpecKeys == Init /\ [][NextKeys]_vars

\* goroutine g1 waits while goroutine g2 writes
NextWait ==
    \/ \E k \in Keys : Invoke("g1", "WaitForUnlock", k)
    \/ WaitSteps("g1") \/ PeekSteps("g1") \/ OpenSteps("g1")
    \/ \E o \in {"Store", "Delay", "Delete"}, k \in Keys : Invoke("g2", o, k)
    \/ StoreSteps("g2", Values, Times) \/ DelaySteps("g2", Delays) \/ DeleteSteps("g2")
    \/ Cancel("g1", Canceled)
    \/ Tick(MaxTime)
SpecWait == Init /\ [][NextWait]_vars
\* the scheduler lets every goroutine that can step do so: sync.RWMutex
\* starves neither readers nor writers
Fairness == \A p \in Procs : SF_vars(Step(p, Values, Times, Delays))
SpecFair == SpecWait /\ Fairness
\* and the clock advances
SpecFairClock == SpecWait /\ Fairness /\ WF_vars(Tick(MaxTime))

\* goroutine g1 waits for key "a" while goroutine g2 writes it, one value
NextAlarm ==
    \/ Invoke("g1", "WaitForUnlock", "a")
    \/ WaitSteps("g1") \/ PeekSteps("g1") \/ OpenSteps("g1")
    \/ \E o \in {"Store", "Delay", "Delete"} : Invoke("g2", o, "a")
    \/ StoreSteps("g2", OneValue, Times) \/ DelaySteps("g2", Delays) \/ DeleteSteps("g2")
    \/ Cancel("g1", Canceled)
    \/ Tick(MaxTime)
SpecAlarm ==
    /\ Init /\ [][NextAlarm]_vars
    /\ \A p \in Procs : SF_vars(Step(p, OneValue, Times, Delays))
    /\ WF_vars(Tick(MaxTime))

\* goroutine g1 waits for key "a" while goroutine g2 makes every other call;
\* the scheduler is fair, the clock need not advance
NextBlocked ==
    \/ Invoke("g1", "WaitForUnlock", "a")
    \/ WaitSteps("g1") \/ PeekSteps("g1") \/ OpenSteps("g1")
    \/ \E o \in Ops \ {"WaitForUnlock"} : Invoke("g2", o, "a")
    \/ StoreSteps("g2", OneValue, Times) \/ DelaySteps("g2", Delays) \/ DeleteSteps("g2")
    \/ OpenSteps("g2") \/ PeekSteps("g2") \/ ExistsSteps("g2")
    \/ Cancel("g1", Canceled)
    \/ Tick(MaxTime)
SpecBlocked ==
    /\ Init /\ [][NextBlocked]_vars
    /\ \A p \in Procs : SF_vars(Step(p, OneValue, Times, Delays))

\* a backend-delegating Delay beside a goroutine that stores and deletes
\* through a PersistentTimeCapsule on the same backend
NextBackend ==
    \/ \E k \in Keys : PInvoke("g1", "Delay", k)
    \/ PDelaySteps("g1", Delays)
    \/ \E o \in {"Store", "Delete"} : PInvoke("g2", o, "a")
    \/ PStoreSteps("g2", Values, Times) \/ PDeleteSteps("g2")
    \/ Cancel("g1", Canceled)
    \/ Tick(MaxTime)
SpecBackend == Init /\ [][NextBackend]_vars

\* one goroutine making every call of both stores, one after the other
PStep(p, V, U, D) ==
    \/ PStoreSteps(p, V, U) \/ POpenSteps(p) \/ PPeekSteps(p) \/ PDelaySteps(p, D)
    \/ PDeleteSteps(p) \/ PExistsSteps(p) \/ PWaitSteps(p)
NextBoth ==
    \/ \E o \in Ops, k \in Keys : Invoke("g1", o, k) \/ PInvoke("g1", o, k)
    \/ Step("g1", OneValue, Times, Delays)
    \/ PStep("g1", OneValue, Times, Delays)
    \/ \E e \in CtxErrs : Cancel("g1", e)
    \/ Tick(MaxTime)
SpecBoth == Init /\ [][NextBoth]_vars

\* one goroutine making every call of the PersistentTimeCapsule, some of the
\* values it stores having no encoding
NextValidate ==
    \/ \E o \in Ops, k \in Keys : PInvoke("g1", o, k)
    \/ PStep("g1", OneValue \cup {Unsupported}, Times, Delays)
    \/ \E e \in CtxErrs : Cancel("g1", e)
    \/ Tick(MaxTime)
SpecValidate == Init /\ [][NextValidate]_vars

\* The two stores side by side: g1 calls a MemoryTimeCapsule, g2 makes the
\* same calls with the same arguments on a PersistentTimeCapsule.  A call
\* pauses where the two implementations meet: at the entry of an operation,
\* before the timer is armed, and in the select.  g1 runs to the next such
\* point, g2 follows; the clock ticks and the context is cancelled (for both)
\* only while both stand at the same point, so that every time.Now() and
\* every ctx.Err() of the one sees what the other's sees.  Where both cases
\* of the select are ready Go picks one at random: g2 takes the case g1 took.
Rest(p) == pc[p] \in {"idle", "done"}
MeetPcs == {"Store_entry", "Open_entry", "Peek_entry", "Delete_entry",
            "Exists_entry", "Wait_entry", "Wait_arm", "Wait_select"}
Paired == pc["g2"] = "P" \o pc["g1"]
Aligned == (Rest("g1") /\ Rest("g2")) \/ Paired
SameCtx == ctx["g1"] = ctx["g2"]
Leads == Paired /\ SameCtx                   \* g1 may leave the meeting point
Follows ==                                   \* g1 is ahead and stays put
    /\ ~Rest("g2") /\ ~Paired /\ SameCtx
    /\ Rest("g1") \/ pc["g1"] \in MeetPcs
MidCall == pc["g1"] \notin MeetPcs /\ ~Rest("g1")
NextRefine ==
    \/ /\ Rest("g1") /\ Rest("g2")
       /\ \E o \in Ops \ {"Delay"}, k \in Keys : Invoke("g1", o, k)
    \/ /\ ~Rest("g1") /\ Rest("g2")
       /\ PInvoke("g2", call["g1"].op, call["g1"].key)
    \/ /\ Leads \/ MidCall
       /\ \/ StoreSteps("g1", Values, Times) \/ OpenSteps("g1") \/ PeekSteps("g1")
          \/ DeleteSteps("g1") \/ ExistsSteps("g1") \/ WaitSteps("g1")
    \/ /\ Follows
       /\ \/ PStoreSteps("g2", {call["g1"].value}, {call["g1"].unlockTime})
          \/ POpenSteps("g2") \/ PPeekSteps("g2") \/ PDeleteSteps("g2")
          \/ PExistsSteps("g2") \/ PWaitEntry("g2") \/ PWaitArm("g2")
          \/ Rest("g1") /\ PSelectDone("g2")
          \/ ~Rest("g1") /\ PSelectTimer("g2")
    \/ Paired /\ SameCtx /\ Cancel("g1", Canceled)
    \/ Paired /\ ~SameCtx /\ Cancel("g2", ctx["g1"])
    \/ Aligned /\ SameCtx /\ Tick(MaxTime)
SpecRefine == Init /\ [][NextRefine]_vars

\* ------------------------------------------------------------ claims
Returns(p) == pc[p] # "done" /\ pc'[p] = "done"
Key(p) == call[p].key

C1_OpenReadsMap ==
    \A p \in Procs : pc[p] = "Open_read" /\ pc'[p] = "Open_check" =>
        /\ exists'[p] = Has(capsules, Key(p))
        /\ exists'[p] => capsule'[p] = capsules[Key(p)]
C1_OpenJudges ==
    \A p \in Procs : pc[p] = "Open_check" /\ Returns(p) =>
        /\ ~exists[p] => ret'[p] = RetErr(ErrCapsuleNotFound)
        /\ exists[p] /\ now < capsule[p].UnlockTime => ret'[p] = RetErr(ErrCapsuleLocked)
        /\ exists[p] /\ now >= capsule[p].UnlockTime => ret'[p] = RetValue(capsule[p].Value)
        /\ ~touched[p] => exists[p] = Has(capsules, Key(p))
        /\ ~touched[p] /\ exists[p] => capsule[p] = capsules[Key(p)]
\* C1: Open returns the stored value only if a record exists under the key and
\* the clock has reached the unlock time of the record it read; it returns
\* CapsuleLocked when that record exists and now < unlockTime, CapsuleNotFound
\* when none exists.  The record it judges is the one the map held when Open
\* read it, and, when no other goroutine changed the key during the call, the
\* one the map holds when Open returns.
C1_OpenTimeGate == [][C1_OpenReadsMap /\ C1_OpenJudges]_vars
\* Open has returned the value of a capsule that the clock unlocked
C1_Witness ==
    /\ pc["g1"] = "done" /\ call["g1"].op = "Open"
    /\ ret["g1"].err = Nil /\ ret["g1"].value \in Values
    /\ Has(capsules, "a") /\ capsules["a"].UnlockTime = 1 /\ capsules["a"].CreatedAt = 0

RunView(r, i) == [r EXCEPT !.value = r.value[i]]
C2_OnlyOpenReveals ==
    \A p \in Procs : Returns(p) /\ RunView(ret'[p], 1) # RunView(ret'[p], 2) =>
        /\ pc[p] = "Open_check"
        /\ exists[p] /\ now >= capsule[p].UnlockTime
        /\ ret'[p].err = Nil
C3_Called ==
    /\ pc["g1"] = "Wait_entry"
    /\ Has(capsules, Key("g1"))
    /\ now < capsules[Key("g1")].UnlockTime
    /\ capsules[Key("g1")].UnlockTime <= MaxTime
C3_Delivered ==
    /\ pc["g1"] = "done"
    /\ Has(capsules, Key("g1"))
    /\ ret["g1"] = RetValue(capsules[Key("g1")].Value)
    /\ now >= capsules[Key("g1")].UnlockTime
C3_NotEarly ==
    Returns("g1") /\ call["g1"].op = "WaitForUnlock" /\ ~touched["g1"]
        /\ ctx["g1"] = Nil /\ Has(capsules, Key("g1")) =>
        /\ ret'["g1"] = RetValue(capsules[Key("g1")].Value)
        /\ now >= capsules[Key("g1")].UnlockTime
\* C3: a WaitForUnlock called on a locked capsule (v, u), whose context is
\* never cancelled and whose key no other goroutine changes during the call,
\* eventually returns v with no error, as long as the clock keeps advancing
\* (u within the clock's range); and it does not return before the clock
\* reaches u.
C3_WaitDelivers ==
    /\ C3_Called ~> (C3_Delivered \/ touched["g1"] \/ ctx["g1"] # Nil)
    /\ [][C3_NotEarly]_vars
\* a WaitForUnlock that armed its timer has returned the value
C3_Witness ==
    /\ pc["g1"] = "done" /\ call["g1"].op = "WaitForUnlock"
    /\ timers["g1"] = 1 /\ ~touched["g1"] /\ ctx["g1"] = Nil
    /\ ret["g1"].err = Nil /\ ret["g1"].value \in Values

C4_Cancelled == pc["g1"] = "Wait_select" /\ ctx["g1"] # Nil
C4_LeavesWithCtxErr ==
    C4_Cancelled /\ ~Fired(timer["g1"]) /\ pc'["g1"] # "Wait_select" =>
        /\ pc'["g1"] = "done"
        /\ ret'["g1"] = RetErr(ctx["g1"])
        /\ timer'["g1"].state = "stopped"
        /\ now' = now
\* C4: a WaitForUnlock blocked on a locked capsule whose context is cancelled
\* before its timer fires returns, without the clock having to advance, and
\* the step that takes it out of the wait returns the context's error with no
\* value: not CapsuleLocked, not CapsuleNotFound.
C4_WaitCancels ==
    /\ C4_Cancelled ~> (pc["g1"] = "done" /\ ret["g1"] = RetErr(ctx["g1"]))
    /\ [][C4_LeavesWithCtxErr]_vars
\* a blocked WaitForUnlock has returned the context's error before its unlock time
C4_Witness ==
    /\ pc["g1"] = "done" /\ call["g1"].op = "WaitForUnlock"
    /\ timers["g1"] = 1 /\ timer["g1"].state = "stopped"
    /\ ret["g1"] = RetErr(Canceled)
    /\ Has(capsules, "a") /\ now < capsules["a"].UnlockTime /\ ~touched["g1"]

C5_AtMostOnce == \A p \in Procs : timers[p] <= 1 /\ opens[p] <= 1
C5_AfterTimer(p) == call[p].op = "WaitForUnlock" /\ timers[p] = 1
C5_ReadsOnce ==
    \A p \in Procs : C5_AfterTimer(p) /\ pc[p] = "Open_read" /\ pc'[p] # "Open_read" =>
        /\ pc'[p] = "Open_check"
        /\ exists'[p] = Has(capsules, Key(p))
        /\ capsule'[p] = Lookup(capsules, Key(p))
C5_EndsTheCall ==
    \A p \in Procs : C5_AfterTimer(p) /\ pc[p] = "Open_check" /\ pc'[p] # "Open_check" =>
        /\ pc'[p] = "done"
        /\ ~exists[p] => ret'[p] = RetErr(ErrCapsuleNotFound)
        /\ exists[p] /\ now < capsule[p].UnlockTime => ret'[p] = RetErr(ErrCapsuleLocked)
        /\ timer'[p].state # "armed"
\* C5: a WaitForUnlock call arms at most one timer and calls Open at most
\* once.  The Open it makes after its timer reads the map once and ends the
\* call: with CapsuleNotFound if the key is gone by then, with CapsuleLocked if
\* the record then under the key unlocks later than the clock; the call never
\* goes back to wait.
C5_SingleWaitAttempt == []C5_AtMostOnce /\ [][C5_ReadsOnce /\ C5_EndsTheCall]_vars
\* the unlock time was moved past the deadline during the wait: CapsuleLocked
C5_Witness ==
    /\ pc["g1"] = "done" /\ call["g1"].op = "WaitForUnlock"
    /\ timers["g1"] = 1 /\ opens["g1"] = 1 /\ touched["g1"]
    /\ ret["g1"] = RetErr(ErrCapsuleLocked)
\* the key was deleted during the wait: CapsuleNotFound
C5_WitnessDeleted ==
    /\ pc["g1"] = "done" /\ call["g1"].op = "WaitForUnlock"
    /\ timers["g1"] = 1 /\ opens["g1"] = 1 /\ touched["g1"]
    /\ ret["g1"] = RetErr(ErrCapsuleNotFound) /\ ~Has(capsules, "a")

C6_DelayStep ==
    \A p \in Procs : pc[p] = "Delay_crit" /\ Returns(p) /\ ret'[p].err = Nil =>
        /\ Has(capsules, Key(p))
        /\ capsules' = Put(capsules, Key(p),
                           Capsule(capsules[Key(p)].Value, now + call'[p].delay,
                                   capsules[Key(p)].CreatedAt))
C7_DelayStep ==
    \A p \in Procs :
        /\ pc[p] = "Delay_crit" /\ Returns(p) /\ ret'[p].err = Nil
        /\ call'[p].delay > 0
        /\ Has(capsules, Key(p)) /\ now < capsules[Key(p)].UnlockTime
        => /\ capsules'[Key(p)].UnlockTime > capsules[Key(p)].UnlockTime
           /\ now < capsules'[Key(p)].UnlockTime
\* C7 (as claimed): a successful Delay(k, d) with d > 0 on a locked capsule
\* leaves its unlock time strictly later than before, and the capsule locked.
C7_DelayPostpones == [][C7_DelayStep]_vars

C8_StoreStep ==
    \A p \in Procs : pc[p] = "Store_crit" /\ Returns(p) =>
        /\ ret'[p].err = Nil
        /\ Has(capsules', Key(p))
        /\ capsules'[Key(p)] = Capsule(call'[p].value, call'[p].unlockTime, now)
        /\ DOMAIN capsules' = DOMAIN capsules \cup {Key(p)}
        /\ \A k \in DOMAIN capsules \ {Key(p)} : capsules'[k] = capsules[k]
C9_OpenStep ==
    \A p \in Procs :
        /\ pc[p] = "Open_check" /\ Returns(p)
        /\ ~touched[p]
        /\ Has(lastStore, Key(p)) /\ now >= lastStore[Key(p)][2]
        => ret'[p] = RetValue(lastStore[Key(p)][1])
\* C9: after a successful Store(k, v, u) that no Store, Delay or Delete of k
\* has followed, an Open(k) that passed its context check and judges the
\* record at a clock value >= u returns exactly v and no error.
C9_RoundTrip == [][C9_OpenStep]_vars
\* Open has returned the stored value at the very instant the capsule unlocks
C9_Witness ==
    /\ pc["g1"] = "done" /\ call["g1"].op = "Open" /\ ~touched["g1"]
    /\ Has(lastStore, "a") /\ lastStore["a"] = <<ret["g1"].value, 1>>
    /\ now = 1 /\ ret["g1"].err = Nil /\ ret["g1"].value = <<2, 2>>
    /\ capsules["a"].CreatedAt = 0

Writing(p) == pc[p] \in {"Store_crit", "Delay_crit", "Delete_crit"}
Reading(p) == pc[p] \in {"Open_read", "Peek_read", "Exists_read"}
\* C10: while a Store, Delay or Delete is between taking and releasing the
\* store lock, no other goroutine is there too, and none is between RLock
\* and RUnlock in Open, Peek or Exists.
C10_WriterExcludesAll ==
    \A p, q \in Procs : p # q /\ Writing(p) => ~Writing(q) /\ ~Reading(q)
\* a writer is in the map while the other goroutine is held at the lock
C10_Witness ==
    /\ Writing("g1")
    /\ pc["g2"] \in {"Store_lock", "Delay_lock", "Delete_lock",
                      "Open_rlock", "Peek_rlock", "Exists_rlock"}
\* two readers are in the map at the same time
C10_ReadersShare == Reading("g1") /\ Reading("g2") /\ mu.readers = 2

MidCopy(q) == pc[q] = "Store_copy"
C11_ReadsWhole ==
    \A p \in Procs :
        \/ pc[p] = "Open_read" /\ pc'[p] = "Open_check"
        \/ pc[p] = "Peek_read" /\ pc'[p] = "Peek_ret"
        => /\ \A q \in Procs : ~MidCopy(q)
           /\ exists'[p] = Has(capsules, Key(p))
           /\ capsule'[p] = Lookup(capsules, Key(p))
C11_KeepsCopy ==
    \A p \in Procs : pc[p] \in {"Open_check", "Peek_ret"} /\ pc'[p] = pc[p] =>
        capsule'[p] = capsule[p] /\ exists'[p] = exists[p]
C11_JudgesCopy ==
    \A p \in Procs :
        /\ pc[p] = "Open_check" /\ Returns(p) /\ ret'[p].err = Nil =>
              /\ exists[p] /\ ret'[p].value = capsule[p].Value
              /\ now >= capsule[p].UnlockTime
        /\ pc[p] = "Open_check" /\ Returns(p) /\ ret'[p].err = ErrCapsuleLocked =>
              exists[p] /\ now < capsule[p].UnlockTime
        /\ pc[p] = "Peek_ret" /\ Returns(p) /\ ret'[p].err = Nil =>
              /\ exists[p] /\ ret'[p].metadata.UnlockTime = capsule[p].UnlockTime
              /\ ret'[p].metadata.CreatedAt = capsule[p].CreatedAt
              /\ ret'[p].metadata.IsLocked = (now < capsule[p].UnlockTime)
\* C11: an Open or Peek copies the record under its key in one step, at an
\* instant when no Store is between copying the fields of a record into the
\* map, so the copy is a record that was whole under the key at that instant;
\* nothing another goroutine does changes the copy afterwards, and the value,
\* unlock time, creation time and lock state the call returns are all taken
\* from that one copy.
C11_NoTornReads == [][C11_ReadsWhole /\ C11_KeepsCopy /\ C11_JudgesCopy]_vars
\* a reader holds a whole record while a Store has copied only the value of
\* its successor into the map
C11_Witness ==
    /\ pc["g1"] \in {"Open_check", "Peek_ret"} /\ exists["g1"]
    /\ MidCopy("g2") /\ Has(capsules, "a")
    /\ capsules["a"].Value = call["g2"].value
    /\ capsules["a"].Value # capsule["g1"].Value
    /\ capsules["a"].UnlockTime = capsule["g1"].UnlockTime
    /\ capsules["a"].UnlockTime # call["g2"].unlockTime

\* what a call does to the map, and returns, when it runs alone at clock value t
SeqMap(m, c, t) ==
    CASE c.op = "Store" ->
           [x \in DOMAIN m \cup {c.key} |->
               IF x = c.key
               THEN [Value |-> c.value, UnlockTime |-> c.unlockTime, CreatedAt |-> t]
               ELSE m[x]]
      [] c.op = "Delay" /\ c.key \in DOMAIN m ->
           [m EXCEPT ![c.key].UnlockTime = t + c.delay]
      [] c.op = "Delete" /\ c.key \in DOMAIN m ->
           [x \in DOMAIN m \ {c.key} |-> m[x]]
      [] OTHER -> m
SeqErr(m, c) ==
    IF c.op = "Store" \/ c.key \in DOMAIN m THEN Nil ELSE ErrCapsuleNotFound
C12_ActsAlone ==
    \A p \in Procs : Writing(p) /\ Returns(p) =>
        /\ capsules' = SeqMap(capsules, call'[p], now)
        /\ ret'[p] = RetErr(SeqErr(capsules, call'[p]))
C12_HeldStable ==
    \A p \in Procs : Writing(p) /\ pc'[p] = pc[p] => capsules' = capsules
C12_OnlyWriters ==
    capsules' # capsules => \E p \in Procs : Writing(p) /\ Returns(p)
\* C12: concurrent Store, Delay and Delete calls on one key take effect one
\* at a time in the order in which they acquire the store lock: from taking
\* the lock to releasing it a call is the only one to change the map, the
\* change it makes and the error it returns are those of the call run alone
\* on the map as it found it, and the map changes at no other step.
C12_LastMutationWins == [][C12_ActsAlone /\ C12_HeldStable /\ C12_OnlyWriters]_vars
\* a Store and a Delete of the same key overlapped; the Delete came last
C12_Witness ==
    /\ pc["g1"] = "done" /\ call["g1"].op = "Store" /\ ret["g1"].err = Nil
    /\ pc["g2"] = "done" /\ call["g2"].op = "Delete" /\ ret["g2"].err = Nil
    /\ touched["g1"] /\ ~Has(capsules, "a")

C13_StoreSucceeds ==
    \A p \in Procs : call[p].op = "Store" /\ Returns(p) =>
        /\ ret'[p].err = Nil
        /\ \A q \in Procs \ {p} :
              /\ Has(capsules', OwnKey(q)) = Has(capsules, OwnKey(q))
              /\ Lookup(capsules', OwnKey(q)) = Lookup(capsules, OwnKey(q))
C13_Kept ==
    \A k \in DOMAIN lastStore :
        /\ Has(capsules, k)
        /\ <<capsules[k].Value, capsules[k].UnlockTime>> = lastStore[k]
C13_ExistsSees ==
    \A p \in Procs : call[p].op = "Exists" /\ Returns(p) /\ Has(lastStore, Key(p)) =>
        ret'[p] = RetBool(TRUE)
\* C13: goroutines that store concurrently, each under a non-empty key of its
\* own and with a live context: every Store returns success and leaves the
\* other keys as they were; from its return on the key holds the value and
\* unlock time that Store passed, and every Exists that returns then is true.
C13_DistinctKeys == []C13_Kept /\ [][C13_StoreSucceeds /\ C13_ExistsSees]_vars
\* both Stores are in, each goroutine has seen the other's key
C13_Witness ==
    /\ \A p \in Procs : pc[p] = "done" /\ call[p].op = "Exists"
                          /\ Key(p) # OwnKey(p) /\ ret[p] = RetBool(TRUE)
    /\ Has(capsules, "a") /\ Has(capsules, "b")
    /\ capsules["a"].Value # capsules["b"].Value
    /\ capsules["a"].UnlockTime # capsules["b"].UnlockTime

\* the call is at its first statement
AtEntry(p) ==
    pc[p] = IF call[p].op = "WaitForUnlock" THEN "Wait_entry" ELSE call[p].op \o "_entry"
C14_EntryStep ==
    \A p \in Procs : AtEntry(p) /\ ctx[p] # Nil /\ pc'[p] # pc[p] =>
        /\ pc'[p] = "done"
        /\ ret'[p] = IF call[p].op = "Exists" THEN RetBool(FALSE) ELSE RetErr(ctx[p])
        /\ capsules' = capsules /\ mu' = mu
        /\ timers'[p] = 0 /\ timer'[p] = NoTimer
\* C14: a call whose context is already cancelled, or past its deadline, when
\* the call starts returns at its first step, whatever the key and the map:
\* Store, Open, Peek, Delay, Delete and WaitForUnlock return the context's
\* error, Exists returns false; the map and the lock are not touched and
\* WaitForUnlock arms no timer.
C14_FailFast == [][C14_EntryStep]_vars
\* Open was refused on an unlocked capsule because its deadline had passed
C14_Witness ==
    /\ pc["g1"] = "done" /\ call["g1"].op = "Open" /\ Key("g1") = "a"
    /\ ret["g1"] = RetErr(DeadlineExceeded) /\ ctx["g1"] = DeadlineExceeded
    /\ Has(capsules, "a") /\ now >= capsules["a"].UnlockTime

\* C15 (as claimed): a Store, Delay or Delete whose context is cancelled at
\* any instant before it changes the map returns a cancellation error and
\* does not change the map.
C15_NoMutationAfterCancel ==
    [][\A p \in Procs : Writing(p) /\ Returns(p) /\ ctx[p] # Nil =>
          capsules' = capsules /\ ret'[p] = RetErr(ctx[p])]_vars

WriteEntry == {"Store_entry", "Delay_entry", "Delete_entry"}
WriteLock == {"Store_lock", "Delay_lock", "Delete_lock"}
C15_EntryStops ==
    \A p \in Procs : pc[p] \in WriteEntry /\ ctx[p] # Nil /\ pc'[p] # pc[p] =>
        Returns(p) /\ ret'[p] = RetErr(ctx[p]) /\ capsules' = capsules
C15_PastTheCheck ==
    \A p \in Procs :
        /\ pc'[p] \in WriteLock /\ pc[p] # pc'[p] => pc[p] \in WriteEntry /\ ctx[p] = Nil
        /\ Writing(p)' /\ ~Writing(p) => pc[p] \in WriteLock
C15_LaterIgnored ==
    /\ capsules' # capsules => \E p \in Procs : Writing(p) /\ Returns(p)
    /\ \A p \in Procs : Writing(p) /\ Returns(p) =>
          /\ capsules' = SeqMap(capsules, call'[p], now)
          /\ ret'[p].err \notin CtxErrs
\* C15 (amended): the context is looked at once, when the call starts.  A
\* Store, Delay or Delete that finds it cancelled there returns the context's
\* error and never changes the map; the map is changed only by calls that
\* found their context live at that check, and such a call completes as if
\* its context were live, whether or not it is cancelled afterwards.
C15_CheckedAtEntry == [][C15_EntryStops /\ C15_PastTheCheck /\ C15_LaterIgnored]_vars
\* a Delete cancelled before it started has left the record in place
C15_Witness ==
    /\ pc["g1"] = "done" /\ call["g1"].op = "Delete" /\ Key("g1") = "a"
    /\ ret["g1"] = RetErr(Canceled) /\ Has(capsules, "a")
\* a Delete cancelled after it started has removed the record
C15_WitnessLate ==
    /\ pc["g1"] = "done" /\ call["g1"].op = "Delete" /\ Key("g1") = "a"
    /\ ctx["g1"] = Canceled /\ ret["g1"] = RetErr(Nil) /\ ~Has(capsules, "a")

\* C16 (as claimed): every call with the key "" fails with InvalidKey, Exists
\* returns false, whatever the map and whatever the state of the context.
C16_EmptyKeyAlways ==
    [][\A p \in Procs : Key(p) = "" /\ Returns(p) =>
          ret'[p] = IF call[p].op = "Exists" THEN RetBool(FALSE)
                    ELSE RetErr(ErrInvalidKey)]_vars

C16_EmptyKeyStep ==
    \A p \in Procs : Key(p) = "" /\ Running(p) /\ pc'[p] # pc[p] =>
        /\ capsules' = capsules /\ mu' = mu /\ timers'[p] = 0
        /\ IF pc[p] = "Wait_entry" /\ ctx[p] = Nil THEN pc'[p] = "Peek_entry"
           ELSE /\ pc'[p] = "done"
                /\ ret'[p] = IF call[p].op = "Exists" THEN RetBool(FALSE)
                             ELSE IF ctx[p] # Nil THEN RetErr(ctx[p])
                             ELSE RetErr(ErrInvalidKey)
\* C16 (amended): a call with the key "" never reaches the lock or the map,
\* whatever the map holds.  Exists("") returns false; Store, Open, Peek, Delay,
\* Delete and WaitForUnlock fail with InvalidKey when their context is live at
\* the check, and with the context's error when it is cancelled: the context
\* is checked before the key.
C16_EmptyKey == [][C16_EmptyKeyStep]_vars
\* WaitForUnlock("") has failed with InvalidKey beside a stored capsule
C16_Witness ==
    /\ pc["g1"] = "done" /\ call["g1"].op = "WaitForUnlock" /\ Key("g1") = ""
    /\ ctx["g1"] = Nil /\ ret["g1"] = RetErr(ErrInvalidKey)
    /\ Has(capsules, "a") /\ timers["g1"] = 0

C17_AbsentStep ==
    \A p \in Procs :
        /\ Returns(p) /\ call[p].op # "Store" /\ Key(p) # ""
        /\ ctx[p] = Nil /\ ~Has(capsules, Key(p))
        => /\ ret'[p] = IF call[p].op = "Exists" THEN RetBool(FALSE)
                        ELSE RetErr(ErrCapsuleNotFound)
           /\ timers[p] = 0
           /\ capsules' = capsules
C17_CreatesNothing ==
    \A p \in Procs : Running(p) /\ call[p].op # "Store" /\ pc'[p] # pc[p] =>
        DOMAIN capsules' \subseteq DOMAIN capsules
\* C17: with a live context and a non-empty key that holds no record, Open,
\* Peek, Delay, Delete and WaitForUnlock return CapsuleNotFound and Exists
\* returns false; WaitForUnlock has armed no timer; and no step of a call
\* other than Store adds a key to the map.
C17_NotFound == [][C17_AbsentStep /\ C17_CreatesNothing]_vars
\* WaitForUnlock has failed at once on a key that holds no record
C17_Witness ==
    /\ pc["g1"] = "done" /\ call["g1"].op = "WaitForUnlock" /\ Key("g1") = "a"
    /\ ctx["g1"] = Nil /\ ret["g1"] = RetErr(ErrCapsuleNotFound)
    /\ timers["g1"] = 0 /\ opens["g1"] = 0 /\ capsules = EmptyMap /\ now = 1

C18_PeekStep ==
    \A p \in Procs : call[p].op = "Peek" /\ pc[p] = "Peek_ret" /\ Returns(p) /\ exists[p] =>
        /\ ret'[p] = [value |-> Zero, ok |-> FALSE, err |-> Nil,
                      metadata |-> [UnlockTime |-> capsule[p].UnlockTime,
                                    CreatedAt |-> capsule[p].CreatedAt,
                                    IsLocked |-> (now < capsule[p].UnlockTime)]]
        /\ ~touched[p] => Has(capsules, Key(p)) /\ capsule[p] = capsules[Key(p)]
C18_NoStoredFlag ==
    \A k \in DOMAIN capsules : DOMAIN capsules[k] = {"Value", "UnlockTime", "CreatedAt"}
\* C18: a Peek that finds a record (v, u, c) under its key returns no error,
\* locked or not, and the metadata unlockTime = u, createdAt = c and
\* isLocked = (now < u), with now read when the call builds its result; the
\* record is the one under the key when Peek returns unless another goroutine
\* changed the key meanwhile.  A record holds no lock flag.
C18_PeekLockFlag == []C18_NoStoredFlag /\ [][C18_PeekStep]_vars
\* a record stored locked at 0 is reported unlocked by a Peek at its unlock time
C18_Witness ==
    /\ pc["g1"] = "done" /\ call["g1"].op = "Peek" /\ ~touched["g1"]
    /\ ret["g1"] = RetMetadata(Metadata(1, 0, FALSE)) /\ now = 1
    /\ Has(capsules, "a") /\ capsules["a"].UnlockTime = 1 /\ capsules["a"].CreatedAt = 0

C19_GoesToRead ==
    \A p \in Procs :
        pc[p] = "Exists_entry" /\ ctx[p] = Nil /\ Key(p) # "" /\ pc'[p] # pc[p] =>
            pc'[p] = "Exists_rlock"
C19_ExistsStep ==
    \A p \in Procs : pc[p] = "Exists_read" /\ pc'[p] # pc[p] =>
        /\ pc'[p] = "done"
        /\ ret'[p] = RetBool(Key(p) \in DOMAIN capsules)
        /\ capsules' = capsules
\* C19: a store starts with no key present.  An Exists with a live context
\* and a non-empty key goes on to read the map, and returns true exactly when
\* the key is present in the map at the step of that read, whether the record
\* is locked or unlocked.
C19_ExistsIsPresence ==
    /\ DOMAIN capsules = {}
    /\ [][C19_GoesToRead /\ C19_ExistsStep]_vars
\* Exists has answered true for a capsule that is still locked
C19_Witness ==
    /\ pc["g1"] = "done" /\ call["g1"].op = "Exists" /\ ret["g1"] = RetBool(TRUE)
    /\ Has(capsules, "a") /\ now < capsules["a"].UnlockTime /\ ~touched["g1"]

C20_DeleteStep ==
    \A p \in Procs : pc[p] = "Delete_crit" /\ Returns(p) /\ Has(capsules, Key(p)) =>
        /\ ret'[p] = RetErr(Nil)
        /\ DOMAIN capsules' = DOMAIN capsules \ {Key(p)}
        /\ \A k \in DOMAIN capsules' : capsules'[k] = capsules[k]
C20_StaysGone ==
    \A k \in Keys : ~Has(capsules, k) /\ Has(capsules', k) =>
        \E p \in Procs : pc[p] = "Store_crit" /\ Key(p) = k /\ Returns(p)
C20_GoneStep ==
    \A p \in Procs :
        /\ Returns(p) /\ call[p].op \in {"Open", "Peek", "Delay", "Delete", "Exists"}
        /\ ~Has(capsules, Key(p)) /\ ~touched[p]
        => ret'[p] = IF call[p].op = "Exists" THEN RetBool(FALSE)
                     ELSE RetErr(ErrCapsuleNotFound)
\* C20: a Delete that finds a record under its key, locked or unlocked,
\* removes that key alone and returns no error.  A key that is absent stays
\* absent until a Store of that key writes it, and while it is absent every
\* Open, Peek, Delay and Delete of it returns CapsuleNotFound and every Exists
\* false (calls during which no other goroutine changed the key).
C20_DeleteRemoves == [][C20_DeleteStep /\ C20_StaysGone /\ C20_GoneStep]_vars
\* a Delete has removed a capsule at clock 0, where every record of this
\* specification is locked, and a second Delete has not found it
C20_Witness ==
    /\ now = 0 /\ ~Has(capsules, "a")
    /\ pc["g1"] = "done" /\ call["g1"].op = "Delete" /\ ret["g1"] = RetErr(Nil)
    /\ pc["g2"] = "done" /\ call["g2"].op = "Delete" /\ ~touched["g2"]
    /\ ret["g2"] = RetErr(ErrCapsuleNotFound)

C21_SkipsTheWait ==
    \A p \in Procs :
        /\ call[p].op = "WaitForUnlock" /\ pc[p] = "Peek_ret" /\ pc'[p] # pc[p]
        /\ exists[p] /\ ~(now < capsule[p].UnlockTime)
        => pc'[p] = "Open_entry" /\ opens'[p] = 1 /\ timers'[p] = 0 /\ timer'[p] = NoTimer
C21_OneOpen ==
    \A p \in Procs :
        /\ call[p].op = "WaitForUnlock" /\ timers[p] = 0 /\ opens[p] = 1
        /\ Running(p) /\ pc'[p] # pc[p]
        =>
            /\ pc[p] \in OpenPcs /\ pc'[p] \in OpenPcs \cup {"done"}
            /\ opens'[p] = 1 /\ timers'[p] = 0
            /\ Returns(p) /\ ctx[p] = Nil /\ ~touched[p] =>
                  /\ Has(capsules, Key(p))
                  /\ ret'[p] = RetValue(capsules[Key(p)].Value)
\* C21: when the Peek inside WaitForUnlock finds the capsule unlocked, the
\* call goes straight to Open without arming a timer; from there it only takes
\* the steps of that one Open, never the timer or the select, and what it
\* returns is what that Open returns: the stored value when its context is
\* live and no other goroutine changed the key during the call.
C21_AlreadyUnlocked == [][C21_SkipsTheWait /\ C21_OneOpen]_vars
\* WaitForUnlock has returned the value of an unlocked capsule without a timer
C21_Witness ==
    /\ pc["g1"] = "done" /\ call["g1"].op = "WaitForUnlock"
    /\ timers["g1"] = 0 /\ opens["g1"] = 1 /\ timer["g1"] = NoTimer
    /\ ~touched["g1"] /\ ctx["g1"] = Nil
    /\ ret["g1"].err = Nil /\ ret["g1"].value \in Values

\* C22: a WaitForUnlock call arms at most one timer, a timer is armed only
\* while its call is blocked in the select, and once the call has returned,
\* whether with the value, a context error, CapsuleNotFound, CapsuleLocked or
\* InvalidKey, its timer is not armed.
C22_TimerReleased ==
    \A p \in Procs :
        /\ timers[p] <= 1
        /\ timer[p].state = "armed" => pc[p] = "Wait_select"
        /\ pc[p] \in {"idle", "done"} => timer[p].state # "armed"
\* a wait that ended on its deadline has left its timer stopped
C22_Witness ==
    /\ pc["g1"] = "done" /\ call["g1"].op = "WaitForUnlock"
    /\ timers["g1"] = 1 /\ timer["g1"].state = "stopped"
    /\ ret["g1"] = RetErr(DeadlineExceeded)

\* C23: the empty string is never a key of the map, and every key of the map
\* holds one whole record: a stored value, an unlock time, and a creation
\* time that is a clock value already reached.
C23_KeysValid ==
    /\ "" \notin DOMAIN capsules
    /\ \A k \in DOMAIN capsules :
          /\ DOMAIN capsules[k] = {"Value", "UnlockTime", "CreatedAt"}
          /\ capsules[k].Value \in Values
          /\ capsules[k].UnlockTime \in Int
          /\ capsules[k].CreatedAt \in 0..now
\* a Store with the empty key was refused while the map holds a record
C23_Witness ==
    /\ pc["g2"] = "done" /\ call["g2"].op = "Store" /\ Key("g2") = ""
    /\ ret["g2"] = RetErr(ErrInvalidKey) /\ DOMAIN capsules = {"a"}

C29_Snapshot ==
    \A p \in Procs :
        /\ pc[p] = "Peek_ret" /\ pc'[p] = "Wait_arm" =>
              exists[p] /\ metadata'[p].UnlockTime = capsule[p].UnlockTime
        /\ pc[p] = "Wait_arm" /\ pc'[p] # pc[p] =>
              /\ pc'[p] = "Wait_select" /\ timer'[p].state = "armed"
              /\ timer'[p].fireAt = IF metadata[p].UnlockTime > now
                                    THEN metadata[p].UnlockTime ELSE now
C29_DeadlineFixed ==
    \A p \in Procs : pc[p] = "Wait_select" /\ pc'[p] = "Wait_select" =>
        timer'[p] = timer[p]
C29_LeavesOnDeadlineOrCancel ==
    \A p \in Procs : pc[p] = "Wait_select" /\ pc'[p] # "Wait_select" =>
        \/ ctx[p] # Nil /\ pc'[p] = "done" /\ ret'[p] = RetErr(ctx[p])
        \/ now >= timer[p].fireAt /\ pc'[p] = "Open_entry"
\* C29: the deadline of a blocked WaitForUnlock is the unlock time its Peek
\* read (or the clock value at which the timer was armed, if that is later).
\* No step of another goroutine changes it or ends the wait: the call leaves
\* the select only when its context is cancelled, with the context's error,
\* or when the clock has reached the deadline, to call Open; not earlier,
\* even if a Store or Delay has meanwhile made the capsule openable.
C29_DeadlineIsSnapshot ==
    [][C29_Snapshot /\ C29_DeadlineFixed /\ C29_LeavesOnDeadlineOrCancel]_vars
\* the capsule in the map is openable, the blocked call still waits for the
\* unlock time it read
C29_Witness ==
    /\ pc["g1"] = "Wait_select" /\ ctx["g1"] = Nil /\ touched["g1"]
    /\ timer["g1"].state = "armed" /\ now < timer["g1"].fireAt
    /\ Has(capsules, "a") /\ capsules["a"].UnlockTime <= now

C30_FiresAtOnce ==
    \A p \in Procs :
        pc[p] = "Wait_arm" /\ pc'[p] # pc[p] /\ metadata[p].UnlockTime <= now =>
            /\ pc'[p] = "Wait_select"
            /\ timer'[p].state = "armed" /\ timer'[p].fireAt <= now
C30_Blocked == pc["g1"] = "Wait_select"
\* C30: a timer armed when the clock has already reached the unlock time the
\* Peek read is ready at once.  A blocked WaitForUnlock always holds an armed
\* timer, and when its deadline lies within the clock's range (reached
\* already or not) it leaves the select, the clock advancing.
C30_NoMissedWakeup ==
    /\ [][C30_FiresAtOnce]_vars
    /\ (C30_Blocked /\ timer["g1"].state = "armed" /\ timer["g1"].fireAt <= MaxTime)
          ~> ~C30_Blocked
    /\ [](C30_Blocked => timer["g1"].state = "armed")
\* the clock has reached the unlock time between the Peek and the arming
C30_Witness ==
    /\ pc["g1"] = "Wait_arm" /\ ctx["g1"] = Nil
    /\ metadata["g1"].IsLocked /\ metadata["g1"].UnlockTime <= now

C28_Returned(p) ==
    call[p].op = "Open" /\ pc[p] = "Open_check" /\ Returns(p) /\ ret'[p].err = Nil
\* C28: whenever Open(k) returns a value v, at some instant between its
\* invocation and its return the map held a record under k with value v whose
\* unlock time was not after the clock of that instant
C28_OpenAtomic ==
    [][\A p \in Procs : C28_Returned(p) => ret'[p].value \in openable[p]]_vars

PDelayPcs == {"PDelay_entry", "PDelay_peek", "PDelay_now", "PDelay_open", "PDelay_store"}
C24_Errors ==
    \A p \in Procs : pc[p] \in PDelayPcs /\ Returns(p) =>
        ret'[p].err \in {Nil, ErrInvalidKey, ErrCapsuleNotFound} \cup CtxErrs
C24_ReadsAnyExisting ==
    \A p \in Procs : pc[p] = "PDelay_open" /\ pc'[p] # pc[p] =>
        (ctx[p] = Nil /\ Has(storage, Key(p)) => pc'[p] = "PDelay_store")
C24_SetsUnlockTime ==
    \A p \in Procs : pc[p] = "PDelay_store" /\ Returns(p) /\ ctx[p] = Nil =>
        /\ ret'[p].err = Nil
        /\ storage'[Key(p)].UnlockTime = newUnlockTime[p]
\* C24: a backend-delegating Delay on an existing capsule succeeds whether the
\* capsule is locked or unlocked and sets its unlock time to now + d; its
\* state-based errors are InvalidKey and CapsuleNotFound, never CapsuleLocked
C24_DelayNeedsExistence ==
    [][C24_Errors /\ C24_ReadsAnyExisting /\ C24_SetsUnlockTime]_vars

\* C25: when a Delete(k) takes effect between the read step and the rewrite
\* step of a backend-delegating Delay(k, d), the rewrite step returns
\* CapsuleNotFound and leaves the key absent
C25_DeleteWinsTheRace ==
    [][\A p \in Procs :
          /\ pc[p] = "PDelay_store" /\ Returns(p)
          /\ ctx[p] = Nil /\ ~Has(storage, Key(p))
          => ret'[p].err = ErrCapsuleNotFound /\ ~Has(storage', Key(p))]_vars

\* C26: once a backend-delegating Delay(k, d) and a Store(k, v2, u2) beside it
\* have both returned, the value stored under k is v2
C26_ValueUntouched ==
    \A p, q \in Procs :
        /\ pc[p] = "done" /\ call[p].op = "Delay"
        /\ pc[q] = "done" /\ call[q].op = "Store" /\ ret[q].err = Nil
        /\ call[q].key = call[p].key
        => /\ Has(storage, call[q].key)
           /\ storage[call[q].key].Value = Encode(call[q].value)

\* the encoded image of the in-memory map
Image(m) == [k \in DOMAIN m |-> [m[k] EXCEPT !.Value = Encode(@)]]
C27_Same ==
    /\ ret["g2"] = ret["g1"]
    /\ metadata["g2"] = metadata["g1"]
    /\ timer["g2"] = timer["g1"]
    /\ storage = Image(capsules)
C27_Lossless == \A v \in Values : Decode(Encode(v)) = v /\ Encode(v) # v
C27_Arrives ==
    pc'["g2"] # pc["g2"] /\ ~Rest("g2")
    /\ (pc'["g2"] = "done" \/ pc'["g2"] \in {"P" \o l : l \in MeetPcs})
    => (pc'["g1"] = "done" /\ pc'["g2"] = "done") \/ pc'["g2"] = "P" \o pc'["g1"]
\* C27: over a backend that keeps a map of bytes and a lossless codec, the
\* PersistentTimeCapsule gives, for every sequence of Store, Open, Peek,
\* Delete, Exists and WaitForUnlock calls with the same arguments at the same
\* clock values, the results and errors of the MemoryTimeCapsule, and the
\* backend holds the encoded image of the in-memory map after every step
C27_Refines ==
    /\ C27_Lossless
    /\ [](Aligned => C27_Same)
    /\ [][C27_Arrives]_vars
\* both stores have waited for the capsule and handed out its value
C27_Witness ==
    /\ pc["g1"] = "done" /\ pc["g2"] = "done"
    /\ call["g2"].op = "WaitForUnlock" /\ call["g1"].op = "WaitForUnlock"
    /\ timers["g2"] = 1
    /\ ret["g2"].err = Nil /\ ret["g2"].value \in Values
    /\ Has(storage, "a") /\ storage["a"].Value = Encode(ret["g2"].value)

ReadOps == {"Open", "Peek", "Exists", "WaitForUnlock"}
\* p takes a step of the call it is in
Steps(p) == Running(p) /\ pc'[p] # pc[p]
C33_MapUntouched ==
    \A p \in Procs : Steps(p) /\ call[p].op \in ReadOps => capsules' = capsules
C33_NotConsumed ==
    \A p \in Procs :
        /\ call[p].op = "Open" /\ Returns(p) /\ ret'[p].err = Nil /\ ~touched[p]
        => /\ Has(capsules', Key(p))
           /\ capsules'[Key(p)].Value = ret'[p].value
\* C33: no step of Open, Peek, Exists or WaitForUnlock changes the map, on
\* success or on error; the capsule a successful Open has read is still there
C33_ReadsHaveNoEffect == [][C33_MapUntouched /\ C33_NotConsumed]_vars
\* an Open has handed out the value of a capsule that is still in the map
C33_Witness ==
    \E p \in Procs :
        /\ pc[p] = "done" /\ call[p].op = "Open" /\ ret[p].err = Nil
        /\ Has(capsules, Key(p)) /\ capsules[Key(p)].Value = ret[p].value

WriteOps == {"Store", "Delay", "Delete"}
C34_OthersKept(p) ==
    \A k \in (DOMAIN capsules \cup DOMAIN capsules') \ {Key(p)} :
        /\ Has(capsules, k) /\ Has(capsules', k)
        /\ capsules'[k] = capsules[k]
\* C34: a step of Store, Delay or Delete on key k leaves every other key as
\* it was: present or absent, and with the same value, unlockTime and createdAt
C34_PerKeyFrame ==
    [][\A p \in Procs : Steps(p) /\ call[p].op \in WriteOps => C34_OthersKept(p)]_vars
\* a Delete of one key has returned nil and the other key holds its record
C34_Witness ==
    \E p, q \in Procs :
        /\ pc[p] = "done" /\ call[p].op = "Delete" /\ ret[p].err = Nil
        /\ ~Has(capsules, call[p].key)
        /\ call[q].key # call[p].key /\ Has(capsules, call[q].key)

C35_WritesSucceed ==
    \A p \in Procs : Steps(p) /\ capsules' # capsules =>
        Returns(p) /\ ret'[p].err = Nil
C35_ErrorsKeep ==
    \A p \in Procs : Returns(p) /\ ret'[p].err # Nil => capsules' = capsules
\* C35: a call that returns an error has left the map as it was: the one step
\* of a call that changes the map is its last and returns nil, and a step
\* that returns an error changes nothing
C35_UnchangedOnError == [][C35_WritesSucceed /\ C35_ErrorsKeep]_vars
\* a Delete has failed on its context and the capsule is still there
C35_Witness ==
    \E p \in Procs :
        /\ pc[p] = "done" /\ call[p].op = "Delete" /\ ret[p].err \in CtxErrs
        /\ call[p].key # "" /\ Has(capsules, call[p].key)

\* the call is at the first statement of a PersistentTimeCapsule method
PAtEntry(p) ==
    pc[p] = IF call[p].op = "WaitForUnlock" THEN "PWait_entry"
            ELSE "P" \o call[p].op \o "_entry"
\* the step that looks at the key: the first one, the second of WaitForUnlock
AtKeyCheck(p) ==
    IF call[p].op = "WaitForUnlock" THEN pc[p] \in {"Peek_entry", "PPeek_entry"}
    ELSE AtEntry(p) \/ PAtEntry(p)
C36_ContextFirst ==
    \A p \in Procs : (AtEntry(p) \/ PAtEntry(p)) /\ ctx[p] # Nil /\ pc'[p] # pc[p] =>
        /\ pc'[p] = "done"
        /\ ret'[p] = IF call[p].op = "Exists" THEN RetBool(FALSE) ELSE RetErr(ctx[p])
C36_KeySecond ==
    \A p \in Procs :
        /\ AtKeyCheck(p) /\ ctx[p] = Nil /\ Key(p) = "" /\ pc'[p] # pc[p]
           => /\ pc'[p] = "done"
              /\ ret'[p] = IF call[p].op = "Exists" THEN RetBool(FALSE)
                           ELSE RetErr(ErrInvalidKey)
        /\ Returns(p) /\ Key(p) = ""
           => ret'[p].err \notin {ErrCapsuleNotFound, ErrCapsuleLocked}
        /\ Returns(p) /\ ret'[p].err = ErrInvalidKey => Key(p) = ""
C36_ExistenceThird ==
    \A p \in Procs : Returns(p) /\ ret'[p].err = ErrCapsuleLocked =>
        \/ pc[p] = "Open_check" /\ exists[p]
        \/ pc[p] \in {"POpen_call", "PDelay_open"} /\ Has(storage, Key(p))
C36_LockStateInOpenOnly ==
    \A p \in Procs : Returns(p) /\ ret'[p].err = ErrCapsuleLocked =>
        pc[p] \in {"Open_check", "POpen_call"}
\* C36: every operation checks the context, then the key, then existence, then
\* (Open only, also when WaitForUnlock calls it) the lock state, and reports
\* the first check that fails: a cancelled context beats the empty key, and a
\* call with the empty key never returns CapsuleNotFound or CapsuleLocked
C36_ErrorPrecedence ==
    [][/\ C36_ContextFirst /\ C36_KeySecond /\ C36_ExistenceThird
       /\ C36_LockStateInOpenOnly]_vars

C37_Waiting(p) == call[p].op = "WaitForUnlock" /\ Steps(p)
C37_EitherBranch ==
    \A p \in Procs : C37_Waiting(p) /\ ctx[p] # Nil =>
        /\ pc[p] = "Wait_select" =>
              \/ pc'[p] = "done" /\ ret'[p] = RetErr(ctx[p])
              \/ pc'[p] = "Open_entry" /\ ctx'[p] = ctx[p]
        /\ pc[p] = "Open_entry" => pc'[p] = "done" /\ ret'[p] = RetErr(ctx[p])
C37_ValueNeedsLiveOpen ==
    \A p \in Procs : C37_Waiting(p) =>
        /\ Returns(p) /\ ret'[p].err = Nil => pc[p] = "Open_check"
        /\ pc'[p] = "Open_check" => pc[p] = "Open_read"
        /\ pc'[p] = "Open_read" => pc[p] = "Open_rlock"
        /\ pc'[p] = "Open_rlock" => pc[p] = "Open_entry" /\ ctx[p] = Nil
\* C37: when the timer has fired and the context is cancelled too, the wait
\* returns the context's error by either case of the select, the Open after
\* the timer looking at the context first; WaitForUnlock hands out a value
\* only through an Open that found the context live when it started
C37_BothReady == [][C37_EitherBranch /\ C37_ValueNeedsLiveOpen]_vars
\* the timer case was taken with the context cancelled: the context's error
C37_Witness ==
    /\ pc["g1"] = "done" /\ call["g1"].op = "WaitForUnlock"
    /\ timer["g1"].state = "fired" /\ opens["g1"] = 1
    /\ ret["g1"] = RetErr(Canceled)
    /\ Has(capsules, "a") /\ ~Before(now, capsules["a"].UnlockTime)

\* what an Open of key k would return on map m at clock value t
OpenOf(m, k, t) == OpenResult(Lookup(m, k), Has(m, k), t)
C38_DelayStep(p) ==
    LET k == Key(p)
        d == call'[p].delay
    IN  /\ ret'[p].err = Nil
        /\ Has(capsules', k)
        /\ capsules'[k].UnlockTime = now + d
        /\ d <= 0 => OpenOf(capsules', k, now) = RetValue(capsules[k].Value)
        /\ d > 0 => OpenOf(capsules', k, now) = RetErr(ErrCapsuleLocked)
\* C38: Delay(k, d) on an existing capsule succeeds for every d and for locked
\* and unlocked capsules alike and sets the unlock time to now + d: with
\* d <= 0 an Open right after the call returns the value, with d > 0 it fails
\* with CapsuleLocked, also where it succeeded before the call
C38_AnyDelayAnyState ==
    [][\A p \in Procs :
          pc[p] = "Delay_crit" /\ Returns(p) /\ Has(capsules, Key(p))
          => C38_DelayStep(p)]_vars
\* an Open has returned the value and a Delay by 1 has locked the capsule again
C38_Witness ==
    /\ pc["g1"] = "done" /\ call["g1"].op = "Open" /\ ret["g1"].err = Nil
    /\ pc["g2"] = "done" /\ call["g2"].op = "Delay" /\ call["g2"].delay = 1
    /\ ret["g2"].err = Nil /\ call["g2"].key = call["g1"].key
    /\ capsules[Key("g2")].UnlockTime = now + 1
    /\ capsules[Key("g2")].Value = ret["g1"].value
    /\ OpenOf(capsules, Key("g2"), now) = RetErr(ErrCapsuleLocked)
\* a Delay by -1 has set the unlock time before the clock
C38_WitnessBack ==
    /\ pc["g2"] = "done" /\ call["g2"].op = "Delay" /\ call["g2"].delay = -1
    /\ ret["g2"].err = Nil /\ capsules[Key("g2")].UnlockTime = now - 1

C32_LaterOpens ==
    \A p \in Procs :
        /\ call[p].op = "Open" /\ Returns(p) /\ ret'[p].err = Nil /\ ~touched[p]
        => \A t \in now..MaxTime :
              OpenOf(capsules', Key(p), t) = RetValue(ret'[p].value)
C32_OnlyWritesLock ==
    \A k \in Keys :
        OpenOf(capsules, k, now).err = Nil /\ OpenOf(capsules', k, now').err # Nil
        => \E p \in Procs : call[p].op \in WriteOps /\ Key(p) = k /\ Steps(p)
BackendPcs == {"PStore_call", "POpen_call", "PPeek_call", "PDelete_call",
               "PExists_call", "PDelay_peek", "PDelay_open", "PDelay_store"}
C39_Refused(p, r) ==
    /\ pc'[p] = "done"
    /\ ret'[p] = IF call[p].op = "Exists" THEN RetBool(FALSE) ELSE r
    /\ storage' = storage
C39_Validates ==
    \A p \in Procs : Steps(p) =>
        /\ PAtEntry(p) /\ ctx[p] # Nil => C39_Refused(p, RetErr(ctx[p]))
        /\ AtKeyCheck(p) /\ ctx[p] = Nil /\ Key(p) = ""
           => C39_Refused(p, RetErr(ErrInvalidKey))
        /\ pc[p] = "PStore_entry" /\ ctx[p] = Nil /\ Key(p) # ""
              /\ call'[p].value = Unsupported
           => C39_Refused(p, RetErr(ErrUnsupported))
C39_BackendOnlyAfter ==
    \A p \in Procs :
        /\ pc'[p] \in BackendPcs /\ pc'[p] # pc[p]
           => Key(p) # "" /\ call'[p].value # Unsupported
        /\ storage' # storage => \E q \in Procs : pc[q] \in BackendPcs /\ Steps(q)
\* C39: with the context cancelled at entry, or with the empty key, a
\* PersistentTimeCapsule call returns the error (Exists: false) without a call
\* of the backend, and so does a Store whose value the codec cannot encode;
\* the backend's records are as before
C39_ValidatesFirst == [][C39_Validates /\ C39_BackendOnlyAfter]_vars
\* a Store was refused by the codec beside a record the backend keeps
C39_Witness ==
    /\ pc["g1"] = "done" /\ call["g1"].op = "Store"
    /\ ret["g1"] = RetErr(ErrUnsupported) /\ call["g1"].value = Unsupported
    /\ Has(storage, Key("g1")) /\ storage[Key("g1")].Value = Encode(<<1, 1>>)

\* the lock is held by the goroutines between Lock and Unlock, RLock and
\* RUnlock, and by no one else
C31_LockAccount ==
    /\ mu.writer = (\E p \in Procs : Writing(p))
    /\ mu.readers = Cardinality({p \in Procs : Reading(p)})
C31_Blocked(p) == pc[p] = "Wait_select"
C31_WaitHoldsNothing ==
    \A p \in Procs : C31_Blocked(p) =>
        /\ ~Writing(p) /\ ~Reading(p)
        /\ (\A q \in Procs \ {p} : Rest(q) \/ C31_Blocked(q))
           => mu = [writer |-> FALSE, readers |-> 0]
C31_ReleasedOnReturn ==
    \A p \in Procs : Returns(p) =>
        /\ mu'.writer = (\E q \in Procs \ {p} : Writing(q))
        /\ mu'.readers = Cardinality({q \in Procs \ {p} : Reading(q)})
\* C31: a WaitForUnlock blocked in its select holds neither side of the store
\* lock and every call has released the lock when it returns; so, whatever
\* WaitForUnlock is blocked, a Store, Delay, Delete, Open, Peek or Exists of
\* the other goroutine returns, the scheduler being fair
C31_NoLockAcrossWait ==
    /\ [](C31_LockAccount /\ C31_WaitHoldsNothing)
    /\ [][C31_ReleasedOnReturn]_vars
    /\ ~Rest("g2") ~> Rest("g2")
\* a Delete has gone through while the other goroutine is blocked in its wait
C31_Witness ==
    /\ C31_Blocked("g1") /\ timer["g1"].state = "armed" /\ ~Fired(timer["g1"])
    /\ pc["g2"] = "done" /\ call["g2"].op = "Delete" /\ ret["g2"].err = Nil
    /\ touched["g1"] /\ ~Has(capsules, "a")

=============================================================================
